---- MODULE Spec2Model ----
(***************************************************************************)
(* Model of snap-kombination: the placement enumerator (placement.rs), the *)
(* optimized permutation composer (permutation_optimized.rs) and the       *)
(* exhaustive fallback composer (permutation_simple.rs).                   *)
(*                                                                         *)
(* Rust arrays are modelled as functions over 0..N-1 so that the indices   *)
(* of the model are the indices of the source.  A Rust panic is modelled   *)
(* by the field "panic" of the value an operation returns.                 *)
(***************************************************************************)
EXTENDS Integers, Sequences, FiniteSets, TLC

\* ---------------------------------------------------------------- bounds
\* largest capacity N (const generic) of a stand-alone placement enumerator
MaxCap == 6
\* largest deck length N (const generic) of a composer
MaxDeck == 4
\* calls of next() followed on the composer of the empty deck
MaxEmpty == 3
\* card values are 0..MaxVal; 0 is T::default()
MaxVal == 3

VARIABLES
    cap,      \* placement spec: the const generic N of the enumerator
    req,      \* placement spec: the arguments (n, k) given to new
    it,       \* placement spec: the PlacementIterator
    out,      \* placement spec: placements returned since new / the last reset
    first,    \* placement spec: placements returned by the fresh enumerator
    call,     \* placement spec: the last call and its outcome
    cycles,   \* placement spec: number of successful reset calls
    sample,   \* composer spec: the input deck
    dpi,      \* composer spec: the DeckPermutationIterator
    api,      \* composer spec: the AllPermutationsIterator
    demit,    \* composer spec: decks returned by the optimized composer
    aemit,    \* composer spec: decks returned by the fallback composer
    dlast,    \* composer spec: outcome of the last next() on the optimized composer
    alast,    \* composer spec: outcome of the last next() on the fallback composer
    dcount,   \* composer spec: result of count() on the optimized composer
    acount,   \* composer spec: result of count() on the fallback composer
    cbuild,   \* composer spec: the build of the program, "debug" or "release"
    cnd,      \* condition spec: a condition object and the last call made on it
    drv,      \* driver spec: an AnalysisExecutor and the progress of execute
    pmap,     \* remapper spec: a PlacementMapping and the last call that built it
    ana       \* analysis spec: an Analysis object and the last call made on it

vars == <<cap, req, it, out, first, call, cycles,
          sample, dpi, api, demit, aemit, dlast, alast, dcount, acount, cbuild,
          cnd, drv, pmap, ana>>

pvars == <<cap, req, it, out, first, call, cycles>>
cvars == <<sample, dpi, api, demit, aemit, dlast, alast, dcount, acount, cbuild>>
kvars == <<cnd>>
xvars == <<drv>>
mvars == <<pmap>>
ovars == <<ana>>

\* ------------------------------------------------------------ arithmetic
RECURSIVE Factorial(_)
Factorial(m) == IF m <= 0 THEN 1 ELSE m * Factorial(m - 1)

Binomial(m, r) == IF r < 0 \/ r > m THEN 0
                  ELSE Factorial(m) \div (Factorial(r) * Factorial(m - r))

\* the k-subsets of 0..n-1
Subsets(n, k) == {S \in SUBSET (0 .. n - 1) : Cardinality(S) = k}

SeqToSet(s) == {s[i] : i \in 1 .. Len(s)}

\* ===================================================== u64 (count() of the composers)
\* A u64 is held as its eight bytes, byte 0 the lowest, since 2^64 is above
\* the integers of TLC.  u64_of makes the value from a sequence of bytes.
u64_of(s) ==
    0 :> s[1] @@ 1 :> s[2] @@ 2 :> s[3] @@ 3 :> s[4] @@
    4 :> s[5] @@ 5 :> s[6] @@ 6 :> s[7] @@ 7 :> s[8]

\* `m as u64` of a non-negative integer below 2^31
u64_from(m) ==
    u64_of(<<m % 256, (m \div 256) % 256, (m \div 65536) % 256,
             (m \div 16777216) % 256, 0, 0, 0, 0>>)

\* the value is below 2^31
u64_small(x) == x[3] < 128 /\ \A i \in 4 .. 7 : x[i] = 0

\* the integer of a small value
u64_int(x) == x[0] + 256 * x[1] + 65536 * x[2] + 16777216 * x[3]

\* a > b and a >= b of u64
u64_gt(a, b) == \E i \in 0 .. 7 : a[i] > b[i] /\ \A j \in i + 1 .. 7 : a[j] = b[j]

u64_ge(a, b) == a = b \/ u64_gt(a, b)

\* the sixteen bytes of a * b, from byte k on, by long multiplication:
\* column k is the sum of the a[i] * b[k - i] and the carry
RECURSIVE u64_bytes(_, _, _, _)
u64_bytes(a, b, k, carry) ==
    IF k > 15 THEN <<>>
    ELSE LET term(i) == IF i <= k /\ k - i <= 7 THEN a[i] * b[k - i] ELSE 0
             s == term(0) + term(1) + term(2) + term(3) + term(4) + term(5)
                  + term(6) + term(7) + carry
         IN  <<s % 256>> \o u64_bytes(a, b, k + 1, s \div 256)

\* a * b of u64: value is the product modulo 2^64 (what a release build
\* stores) and overflow tells that the product is above u64::MAX (where a
\* debug build panics).  The singleton sets hold each operand as a value.
u64_mul(x, y) ==
    CHOOSE m \in
        { IF /\ u64_small(a) /\ u64_small(b)
             /\ (u64_int(b) = 0 \/ u64_int(a) <= 2147483647 \div u64_int(b))
          THEN [value |-> u64_from(u64_int(a) * u64_int(b)), overflow |-> FALSE]
          ELSE CHOOSE w \in { [value |-> u64_of(p),
                               overflow |-> \E i \in 9 .. 16 : p[i] # 0]
                              : p \in {u64_bytes(a, b, 0, 0)} } : TRUE
          : a \in {x}, b \in {y} } : TRUE

\* the nine bytes of r - b, r of nine bytes (byte 1 the lowest) and b a u64
RECURSIVE u64_sub(_, _, _, _)
u64_sub(r, b, i, borrow) ==
    IF i > 9 THEN <<>>
    ELSE LET bi == IF i <= 8 THEN b[i - 1] ELSE 0
             s == r[i] - bi - borrow
         IN  <<IF s < 0 THEN s + 256 ELSE s>>
             \o u64_sub(r, b, i + 1, IF s < 0 THEN 1 ELSE 0)

\* one step of the long division of a by b: bit n of a is brought down to
\* the remainder r of nine bytes (r2 = 2 * r + bit) and bit n of the quotient
\* q is set when b fits
u64_div_step(a, b, n, r, q) ==
    CHOOSE s \in
        { IF r2[9] > 0 \/ u64_ge(u64_of(r2), b)
          THEN [r |-> u64_sub(r2, b, 1, 0),
                q |-> [q EXCEPT ![n \div 8] = @ + 2 ^ (n % 8)]]
          ELSE [r |-> r2, q |-> q]
          : r2 \in {LET sh(i) == ((2 * r[i]) % 256)
                                 + (IF i = 1 THEN (a[n \div 8] \div (2 ^ (n % 8))) % 2
                                    ELSE r[i - 1] \div 128)
                    IN  <<sh(1), sh(2), sh(3), sh(4), sh(5), sh(6), sh(7),
                          sh(8), sh(9)>>} } : TRUE

\* the long division of a by b, from bit n of a down to bit 0
RECURSIVE u64_div_loop(_, _, _, _, _)
u64_div_loop(a, b, n, r, q) ==
    IF n < 0 THEN q
    ELSE CHOOSE v \in { u64_div_loop(a, b, n - 1, s.r, s.q)
                        : s \in {u64_div_step(a, b, n, r, q)} } : TRUE

\* a / b of u64: the division by zero panics in every build
u64_div(x, y) ==
    CHOOSE d \in
        { IF b = u64_from(0) THEN [value |-> u64_from(0), panic |-> TRUE]
          ELSE IF u64_small(a) /\ u64_small(b)
          THEN [value |-> u64_from(u64_int(a) \div u64_int(b)), panic |-> FALSE]
          ELSE [value |-> u64_div_loop(a, b, 63, <<0, 0, 0, 0, 0, 0, 0, 0, 0>>,
                                       u64_from(0)),
                panic |-> FALSE]
          : a \in {x}, b \in {y} } : TRUE

\* ===================================================== placement.rs
\* struct Placement([usize; N], usize)
Placement(c, k) == [c |-> c, k |-> k]

\* Placement::positions: &self.0[0..self.1], as a sequence
positions(p) == [i \in 1 .. p.k |-> p.c[i - 1]]

\* mutant of PlacementIterator::new: k = n is rejected too
PlacementIterator_new_strict(N, n, k) ==
    LET zero == [i \in 0 .. N - 1 |-> 0]
        c1   == [i \in 0 .. N - 1 |-> IF i < k THEN i ELSE 0]
        c2   == IF k < n THEN [c1 EXCEPT ![k] = n] ELSE c1
    IN  IF k >= n \/ n > N
        THEN [k |-> k, n |-> n, c |-> zero, j |-> 0, finished |-> FALSE, panic |-> TRUE]
        ELSE [k |-> k, n |-> n, c |-> c2, j |-> 0, finished |-> FALSE, panic |-> FALSE]

\* PlacementIterator::new
PlacementIterator_new(N, n, k) ==
    LET zero == [i \in 0 .. N - 1 |-> 0]
        c1   == [i \in 0 .. N - 1 |-> IF i < k THEN i ELSE 0]
        c2   == IF k < n THEN [c1 EXCEPT ![k] = n] ELSE c1
    IN  IF k > n \/ n > N
        THEN [k |-> k, n |-> n, c |-> zero, j |-> 0, finished |-> FALSE, panic |-> TRUE]
        ELSE [k |-> k, n |-> n, c |-> c2, j |-> 0, finished |-> FALSE, panic |-> FALSE]

\* an index out of the bounds of self.c panics
Abort(s) == [s EXCEPT !.panic = TRUE]
InC(s, i) == i \in DOMAIN s.c

RECURSIVE try_to_increase(_), try_to_decrease(_)

\* mutant of try_to_increase: the neighbour may be reached (<= for <)
try_to_increase_collide(s) ==
    IF ~(InC(s, s.j) /\ InC(s, s.j + 1)) THEN Abort(s)
    ELSE IF s.c[s.j] + 1 <= s.c[s.j + 1]
    THEN [s EXCEPT !.c = [@ EXCEPT ![s.j - 1] = s.c[s.j], ![s.j] = s.c[s.j] + 1]]
    ELSE LET s1 == [s EXCEPT !.j = s.j + 1]
         IN  IF s1.j + 1 <= s1.k THEN try_to_decrease(s1)
             ELSE [s1 EXCEPT !.finished = TRUE]

\* PlacementIterator::try_to_increase
try_to_increase(s) ==
    IF ~(InC(s, s.j) /\ InC(s, s.j + 1)) THEN Abort(s)
    ELSE IF s.c[s.j] + 1 < s.c[s.j + 1]
    THEN [s EXCEPT !.c = [@ EXCEPT ![s.j - 1] = s.c[s.j], ![s.j] = s.c[s.j] + 1]]
    ELSE LET s1 == [s EXCEPT !.j = s.j + 1]
         IN  IF s1.j + 1 <= s1.k THEN try_to_decrease(s1)
             ELSE [s1 EXCEPT !.finished = TRUE]

\* mutant of try_to_decrease: slot j - 1 keeps its value
try_to_decrease_keep(s) ==
    IF ~InC(s, s.j) THEN Abort(s)
    ELSE IF s.c[s.j] >= s.j + 1
    THEN [s EXCEPT !.c = [@ EXCEPT ![s.j] = s.c[s.j - 1]]]
    ELSE try_to_increase([s EXCEPT !.j = s.j + 1])

\* mutant of try_to_decrease: slot j falls to position j
try_to_decrease_far(s) ==
    IF ~InC(s, s.j) THEN Abort(s)
    ELSE IF s.c[s.j] >= s.j + 1
    THEN [s EXCEPT !.c = [@ EXCEPT ![s.j] = s.j, ![s.j - 1] = s.j - 1]]
    ELSE try_to_increase([s EXCEPT !.j = s.j + 1])

\* PlacementIterator::try_to_decrease
try_to_decrease(s) ==
    IF ~InC(s, s.j) THEN Abort(s)
    ELSE IF s.c[s.j] >= s.j + 1
    THEN [s EXCEPT !.c = [@ EXCEPT ![s.j] = s.c[s.j - 1], ![s.j - 1] = s.j - 1]]
    ELSE try_to_increase([s EXCEPT !.j = s.j + 1])

\* mutant of update_combination: the parity test is inverted
update_combination_parity(s) ==
    IF s.finished THEN s
    ELSE IF s.k = s.n THEN [s EXCEPT !.finished = TRUE]
    ELSE IF s.k = 1
    THEN IF ~InC(s, 1) THEN Abort(s)
         ELSE LET s1 == [s EXCEPT !.c[0] = s.c[0] + 1]
              IN  IF s1.c[0] = s1.c[1] THEN [s1 EXCEPT !.finished = TRUE] ELSE s1
    ELSE IF s.k % 2 = 1
    THEN IF s.c[0] > 0 THEN [s EXCEPT !.c[0] = s.c[0] - 1]
         ELSE try_to_increase([s EXCEPT !.j = 1])
    ELSE IF ~InC(s, 1) THEN Abort(s)
         ELSE IF s.c[0] + 1 < s.c[1] THEN [s EXCEPT !.c[0] = s.c[0] + 1]
         ELSE try_to_decrease([s EXCEPT !.j = 1])

\* PlacementIterator::update_combination (the returned bool is never used)
update_combination(s) ==
    IF s.finished THEN s
    ELSE IF s.k = s.n THEN [s EXCEPT !.finished = TRUE]
    ELSE IF s.k = 1
    THEN IF ~InC(s, 1) THEN Abort(s)
         ELSE LET s1 == [s EXCEPT !.c[0] = s.c[0] + 1]
              IN  IF s1.c[0] = s1.c[1] THEN [s1 EXCEPT !.finished = TRUE] ELSE s1
    ELSE IF s.k % 2 = 0
    THEN IF s.c[0] > 0 THEN [s EXCEPT !.c[0] = s.c[0] - 1]
         ELSE try_to_increase([s EXCEPT !.j = 1])
    ELSE IF ~InC(s, 1) THEN Abort(s)
         ELSE IF s.c[0] + 1 < s.c[1] THEN [s EXCEPT !.c[0] = s.c[0] + 1]
         ELSE try_to_decrease([s EXCEPT !.j = 1])

\* mutant of next: the placement is taken after the update
PlacementIterator_next_late(s) ==
    IF s.finished
    THEN [it |-> s, some |-> FALSE, item |-> Placement(s.c, 0)]
    ELSE [it |-> update_combination(s), some |-> TRUE,
          item |-> Placement(update_combination(s).c, s.k)]

\* mutant of next: returning None clears the finished flag
PlacementIterator_next_rearm(s) ==
    IF s.finished
    THEN [it |-> [s EXCEPT !.finished = FALSE], some |-> FALSE, item |-> Placement(s.c, 0)]
    ELSE [it |-> update_combination(s), some |-> TRUE, item |-> Placement(s.c, s.k)]

\* Iterator for PlacementIterator::next: the iterator after the call (it),
\* whether Some was returned (some) and the returned placement (item)
PlacementIterator_next(s) ==
    IF s.finished
    THEN [it |-> s, some |-> FALSE, item |-> Placement(s.c, 0)]
    ELSE [it |-> update_combination(s), some |-> TRUE, item |-> Placement(s.c, s.k)]

\* mutant of reset: only the finished flag is cleared
PlacementIterator_reset_keep(s) ==
    IF ~s.finished THEN Abort(s)
    ELSE [s EXCEPT !.finished = FALSE]

\* mutant of reset: the finished flag is not tested
PlacementIterator_reset_unchecked(s) ==
    PlacementIterator_new(Cardinality(DOMAIN s.c), s.n, s.k)

\* PlacementIterator::reset
PlacementIterator_reset(s) ==
    IF ~s.finished THEN Abort(s)
    ELSE PlacementIterator_new(Cardinality(DOMAIN s.c), s.n, s.k)

\* PlacementIterator::default
PlacementIterator_default(N) == PlacementIterator_new(N, N, N)

\* Placement::default
Placement_default(N) == Placement([i \in 0 .. N - 1 |-> i], N)

\* ===================================================== permutation_optimized.rs
\* usize::MAX, the mark of an occupied position.  The value, 2^64 - 1 (2^32 - 1
\* on a 32-bit target), is above the integers of TLC; it is written as the
\* same word read as a signed number, -1, which differs from every usize the
\* model can hold, as usize::MAX differs from every index and every entry
\* the program holds.
usize_MAX == -1

\* PlacementMapping::identity
PlacementMapping_identity(N) == [i \in 0 .. N - 1 |-> i]

\* PlacementMapping::map
PlacementMapping_map(m, index) == m[index]

\* mutant of the first loop: only the first occupied position is marked
mark_occupied_first(placement, mapping) ==
    IF placement = <<>> THEN mapping
    ELSE [mapping EXCEPT ![Head(placement)] = usize_MAX]

\* the first loop of from_placement_positions_and_mapping: mark the occupied
\* positions (placement is the sequence placement.positions())
RECURSIVE mark_occupied(_, _)
mark_occupied(placement, mapping) ==
    IF placement = <<>> THEN mapping
    ELSE mark_occupied(Tail(placement), [mapping EXCEPT ![Head(placement)] = usize_MAX])

\* the while loop of from_placement_positions_and_mapping
RECURSIVE compact(_, _, _, _, _)
compact(N, mapping, res, i, j) ==
    IF ~(i < N) THEN res
    ELSE IF j \in DOMAIN mapping
    THEN IF mapping[j] # usize_MAX
         THEN compact(N, mapping, [res EXCEPT ![i] = mapping[j]], i + 1, j + 1)
         ELSE compact(N, mapping, res, i, j + 1)
    ELSE compact(N, mapping, [res EXCEPT ![i] = N - 1], i + 1, j)

\* PlacementMapping::from_placement_positions_and_mapping; an occupied position
\* outside the mapping panics.  overflow records that N - 1 of [N - 1; N] left
\* the range of usize (N = 0): a debug build panics there, a release build
\* wraps and returns the empty mapping, which is map.
from_placement_positions_and_mapping(N, placement, mapping) ==
    IF \E x \in 1 .. Len(placement) : placement[x] \notin DOMAIN mapping
    THEN [map |-> mapping, panic |-> TRUE, overflow |-> FALSE]
    ELSE [map |-> compact(N, mark_occupied(placement, mapping),
                          [i \in 0 .. N - 1 |-> N - 1], 0, 0),
          panic |-> FALSE, overflow |-> N = 0]

\* deck_parts.sort_by(|a, b| amount_b.cmp(amount_a)): stable, descending amount
sort_by_amount_desc(parts) ==
    LET rank(i) == Cardinality({x \in DOMAIN parts : parts[x].count > parts[i].count})
                   + Cardinality({x \in DOMAIN parts :
                                     x < i /\ parts[x].count = parts[i].count})
    IN  [r \in DOMAIN parts |-> parts[CHOOSE i \in DOMAIN parts : rank(i) = r]]

\* the inner loop of split_by_identity: the first part that holds the card or
\* is still empty takes it
add_card(parts, card) ==
    LET hit == {x \in DOMAIN parts : parts[x].card = card \/ parts[x].count = 0}
    IN  IF hit = {} THEN parts
        ELSE LET x == CHOOSE y \in hit : \A z \in hit : y <= z
             IN  [parts EXCEPT ![x] = [card |-> card, count |-> parts[x].count + 1]]

RECURSIVE split_loop(_, _, _, _)
split_loop(N, deck, parts, pos) ==
    IF pos >= N THEN parts
    ELSE split_loop(N, deck, add_card(parts, deck[pos]), pos + 1)

\* DeckPermutationIterator::split_by_identity (T::default() is 0)
split_by_identity(N, deck) ==
    split_loop(N, deck,
               sort_by_amount_desc([x \in 0 .. N - 1 |-> [card |-> 0, count |-> 0]]), 0)

\* the inner loop of do_get_current_deck: write the card of one group
RECURSIVE write_group(_, _, _, _)
write_group(deck, pos, mapping, card) ==
    IF pos = <<>> THEN deck
    ELSE write_group([deck EXCEPT ![PlacementMapping_map(mapping, Head(pos))] = card],
                     Tail(pos), mapping, card)

RECURSIVE do_get_current_deck(_, _, _, _, _, _)
\* mutant of do_get_current_deck: the last group is not written
do_get_current_deck_skip(deck, placements, mappings, deck_parts, len, g) ==
    IF g >= len - 1 THEN deck
    ELSE do_get_current_deck(
             write_group(deck, positions(placements[g]), mappings[g], deck_parts[g].card),
             placements, mappings, deck_parts, len, g + 1)

\* DeckPermutationIterator::do_get_current_deck, groups g .. len-1
do_get_current_deck(deck, placements, mappings, deck_parts, len, g) ==
    IF g >= len THEN deck
    ELSE do_get_current_deck(
             write_group(deck, positions(placements[g]), mappings[g], deck_parts[g].card),
             placements, mappings, deck_parts, len, g + 1)

\* the for loop of DeckPermutationIterator::new, from group i on
RECURSIVE new_loop(_, _, _, _)
new_loop(N, d, i, total_places) ==
    IF i >= d.len \/ d.panic THEN d
    ELSE LET count == d.deck_parts[i].count
             fresh == PlacementIterator_new(N, total_places, count)
             r     == PlacementIterator_next(fresh)
             m     == IF i = 0
                      THEN [map |-> d.placement_mappings[0], panic |-> FALSE]
                      ELSE from_placement_positions_and_mapping(
                               N, positions(d.placements[i - 1]),
                               d.placement_mappings[i - 1])
         IN  IF fresh.panic \/ ~r.some \/ r.it.panic
             THEN [d EXCEPT !.panic = TRUE]
             ELSE LET d1 == [d EXCEPT !.placement_iterators[i] = r.it,
                                      !.placements[i] = r.item]
                  IN  IF m.panic THEN [d1 EXCEPT !.panic = TRUE]
                      ELSE new_loop(N, [d1 EXCEPT !.placement_mappings[i] = m.map],
                                    i + 1, total_places - count)

None(deck) == [some |-> FALSE, deck |-> deck]
Some(deck) == [some |-> TRUE, deck |-> deck]

\* DeckPermutationIterator::get_current_deck
get_current_deck(d) ==
    do_get_current_deck(d.sample, d.placements, d.placement_mappings, d.deck_parts,
                        d.len, 0)

\* DeckPermutationIterator::new
DeckPermutationIterator_new(N, deck) ==
    LET deck_parts == split_by_identity(N, deck)
        len == Cardinality({x \in 0 .. N - 1 : deck_parts[x].count > 0})
        d0  == [placement_iterators |-> [x \in 0 .. N - 1 |-> PlacementIterator_default(N)],
                placements |-> [x \in 0 .. N - 1 |-> Placement_default(N)],
                placement_mappings |-> [x \in 0 .. N - 1 |-> PlacementMapping_identity(N)],
                deck_parts |-> deck_parts,
                len |-> len,
                next_deck |-> None(deck),
                sample |-> deck,
                panic |-> FALSE]
        d1  == new_loop(N, d0, 0, N)
    IN  IF d1.panic THEN d1
        ELSE [d1 EXCEPT !.next_deck = Some(get_current_deck(d1))]

\* update_mappings that rebuilds the remapper of one group only
update_mappings_once(N, d, i) ==
    LET g == IF i > 0 THEN i ELSE 1
    IN  IF g >= d.len \/ d.panic THEN d
        ELSE [d EXCEPT !.placement_mappings[g] =
                 from_placement_positions_and_mapping(
                     N, positions(d.placements[g - 1]), d.placement_mappings[g - 1]).map]

\* DeckPermutationIterator::update_mappings, from group i on
RECURSIVE update_mappings(_, _, _)
update_mappings(N, d, i) ==
    IF i >= d.len \/ d.panic THEN d
    ELSE IF ~(i > 0) THEN update_mappings(N, d, i + 1)
    ELSE LET m == from_placement_positions_and_mapping(
                      N, positions(d.placements[i - 1]), d.placement_mappings[i - 1])
         IN  IF m.panic THEN [d EXCEPT !.panic = TRUE]
             ELSE update_mappings(N, [d EXCEPT !.placement_mappings[i] = m.map], i + 1)

\* the reversed for loop of DeckPermutationIterator::next, at group index;
\* w carries the composer (d), mapping_update_index and finished
RECURSIVE advance(_, _)
advance(w, index) ==
    LET r  == PlacementIterator_next(w.d.placement_iterators[index])
        w1 == [w EXCEPT !.mapping_update_index = index]
    IN  IF r.it.panic THEN [w1 EXCEPT !.d.panic = TRUE]
        ELSE IF r.some
        THEN [w1 EXCEPT !.d.placement_iterators[index] = r.it,
                        !.d.placements[index] = r.item]
        ELSE IF index = 0 THEN [w1 EXCEPT !.finished = TRUE]
        ELSE LET again == PlacementIterator_reset(r.it)
                 r2    == PlacementIterator_next(again)
             IN  IF again.panic \/ ~r2.some \/ r2.it.panic
                 THEN [w1 EXCEPT !.d.panic = TRUE]
                 ELSE advance([w1 EXCEPT !.d.placement_iterators[index] = r2.it,
                                         !.d.placements[index] = r2.item],
                              index - 1)

\* mutant of next: an exhausted composer is built anew while None is returned
DeckPermutationIterator_next_wrap(N, d) ==
    IF ~d.next_deck.some
    THEN [d |-> DeckPermutationIterator_new(N, d.sample), ret |-> None(d.sample),
          overflow |-> FALSE,
          debug |-> [d |-> DeckPermutationIterator_new(N, d.sample),
                     ret |-> None(d.sample)]]
    ELSE LET deck == d.next_deck.deck
             w0 == [d |-> [d EXCEPT !.next_deck = None(d.sample)],
                    mapping_update_index |-> 0, finished |-> FALSE]
             w1 == IF d.len = 0 THEN w0 ELSE advance(w0, d.len - 1)
             d2 == IF w1.d.panic THEN w1.d
                   ELSE IF w1.mapping_update_index # d.len - 1
                   THEN update_mappings(N, w1.d, w1.mapping_update_index)
                   ELSE w1.d
             d3 == IF ~d2.panic /\ ~w1.finished
                   THEN [d2 EXCEPT !.next_deck = Some(get_current_deck(d2))]
                   ELSE d2
         IN  [d |-> d3, ret |-> Some(deck), overflow |-> d.len = 0,
              debug |-> IF d.len = 0
                        THEN [d |-> [w0.d EXCEPT !.panic = TRUE],
                              ret |-> None(d.sample)]
                        ELSE [d |-> d3, ret |-> Some(deck)]]

\* DeckPermutationIterator::next: the composer after the call (d), the
\* returned Option (ret) and whether self.len - 1 left the range of usize
\* (overflow), which is the case of a composer without groups (N = 0): a
\* debug build panics at the subtraction; a release build wraps to
\* usize::MAX, which differs from mapping_update_index = 0, runs
\* update_mappings over the empty range 0..0 and returns the deck, and d and
\* ret are that outcome.  debug is the outcome of a debug build: the same,
\* except for the composer without groups, where the panic comes after
\* next_deck.take() has left None in next_deck and nothing is returned.
DeckPermutationIterator_next(N, d) ==
    IF ~d.next_deck.some
    THEN [d |-> d, ret |-> None(d.sample), overflow |-> FALSE,
          debug |-> [d |-> d, ret |-> None(d.sample)]]
    ELSE LET deck == d.next_deck.deck
             w0 == [d |-> [d EXCEPT !.next_deck = None(d.sample)],
                    mapping_update_index |-> 0, finished |-> FALSE]
             w1 == IF d.len = 0 THEN w0 ELSE advance(w0, d.len - 1)
             d2 == IF w1.d.panic THEN w1.d
                   ELSE IF w1.mapping_update_index # d.len - 1
                   THEN update_mappings(N, w1.d, w1.mapping_update_index)
                   ELSE w1.d
             d3 == IF ~d2.panic /\ ~w1.finished
                   THEN [d2 EXCEPT !.next_deck = Some(get_current_deck(d2))]
                   ELSE d2
         IN  [d |-> d3, ret |-> Some(deck), overflow |-> d.len = 0,
              debug |-> IF d.len = 0
                        THEN [d |-> [w0.d EXCEPT !.panic = TRUE],
                              ret |-> None(d.sample)]
                        ELSE [d |-> d3, ret |-> Some(deck)]]

\* (lo ..= hi).product::<u64>(), the fold 1 * lo * (lo + 1) * ... * hi from
\* the left: value is the product modulo 2^64 and overflow tells that a
\* multiplication left the range of u64
RECURSIVE range_product(_, _)
range_product(lo, hi) ==
    IF lo > hi THEN [value |-> u64_from(1), overflow |-> FALSE]
    ELSE CHOOSE r \in
             { [value |-> u64_mul(acc.value, u64_from(hi)).value,
                overflow |-> \/ acc.overflow
                             \/ u64_mul(acc.value, u64_from(hi)).overflow]
               : acc \in {range_product(lo, hi - 1)} } : TRUE

\* count *= falling / fact: the running count after the statement; the
\* division panics when k! has wrapped to 0
count_step(count, falling, fact) ==
    CHOOSE r \in
        { IF q.panic THEN [value |-> c.value, overflow |-> TRUE, panic |-> TRUE]
          ELSE [value |-> u64_mul(c.value, q.value).value,
                overflow |-> \/ c.overflow \/ f.overflow \/ k.overflow
                             \/ u64_mul(c.value, q.value).overflow,
                panic |-> FALSE]
          : c \in {count}, f \in {falling}, k \in {fact},
            q \in {u64_div(falling.value, fact.value)} } : TRUE

\* the for loop of count() without the division by k!
RECURSIVE count_loop_no_div(_, _, _, _)
count_loop_no_div(d, g, n, count) ==
    IF g >= d.len \/ count.panic THEN count
    ELSE CHOOSE r \in
             { count_loop_no_div(d, g + 1, n - d.deck_parts[g].count, c)
               : c \in {count_step(count,
                                   range_product(n - d.deck_parts[g].count + 1, n),
                                   range_product(1, 0))} } : TRUE

\* the for loop of count(), over groups g .. len-1 (the caller skips group
\* 0), k = deck_parts[g].count; count = [value, overflow, panic]: value is
\* what a release build holds, overflow tells that a u64 product has wrapped,
\* where a debug build panics, and panic that a division by zero has ended
\* the call
RECURSIVE count_loop(_, _, _, _)
count_loop(d, g, n, count) ==
    IF g >= d.len \/ count.panic THEN count
    ELSE CHOOSE r \in
             { count_loop(d, g + 1, n - d.deck_parts[g].count, c)
               : c \in {count_step(count,
                                   range_product(n - d.deck_parts[g].count + 1, n),
                                   range_product(1, d.deck_parts[g].count))} } : TRUE

\* PermutationIterator::count for DeckPermutationIterator
DeckPermutationIterator_count(N, d) ==
    count_loop(d, 1, N, [value |-> u64_from(1), overflow |-> FALSE, panic |-> FALSE])

\* ===================================================== deck.rs
\* From<&[T]> for Deck<T, N>: a slice of another length panics, and so does
\* the empty slice (N = 0), whose value[0] is read to fill the array
Deck_from_slice(N, value) ==
    IF Cardinality(DOMAIN value) # N
    THEN [deck |-> value, panic |-> TRUE]
    ELSE IF 0 \notin DOMAIN value
    THEN [deck |-> value, panic |-> TRUE]
    ELSE [deck |-> [x \in 0 .. N - 1 |-> value[x]], panic |-> FALSE]

\* Deck::card_iter().collect(): the cards in position order
card_iter(deck) == [x \in DOMAIN deck |-> deck[x]]

\* ===================================================== permutation_simple.rs
\* AllPermutationsIterator::new
AllPermutationsIterator_new(collection) ==
    [collection |-> collection,
     initial_returned |-> FALSE,
     i |-> 0,
     c |-> [x \in DOMAIN collection |-> 0]]

\* slice::swap
swap(v, a, b) == [v EXCEPT ![a] = v[b], ![b] = v[a]]

\* AllPermutationsIterator::next_permutation: the iterator after the call (a)
\* and whether Some(collection) was returned
RECURSIVE next_permutation(_)
next_permutation(a) ==
    IF ~(a.i < Cardinality(DOMAIN a.collection)) THEN [a |-> a, some |-> FALSE]
    ELSE IF a.c[a.i] < a.i
    THEN LET coll == IF a.i % 2 = 0 THEN swap(a.collection, 0, a.i)
                     ELSE swap(a.collection, a.c[a.i], a.i)
         IN  [a |-> [a EXCEPT !.collection = coll, !.c[a.i] = a.c[a.i] + 1, !.i = 0],
              some |-> TRUE]
    ELSE next_permutation([a EXCEPT !.c[a.i] = 0, !.i = a.i + 1])

\* AllPermutationsIterator::next (inherent)
AllPermutationsIterator_next(a) ==
    IF ~a.initial_returned
    THEN [a |-> [a EXCEPT !.initial_returned = TRUE], some |-> TRUE]
    ELSE next_permutation(a)

\* PermutationIterator::next for AllPermutationsIterator: the returned slice
\* is converted to a Deck
AllPermutationsIterator_trait_next(N, a) ==
    LET r == AllPermutationsIterator_next(a)
        conv == Deck_from_slice(N, r.a.collection)
    IN  [a |-> r.a, some |-> r.some /\ ~conv.panic, deck |-> conv.deck,
         panic |-> r.some /\ conv.panic]

\* PermutationIterator::count for AllPermutationsIterator
AllPermutationsIterator_count(N) ==
    [value |-> range_product(1, N).value,
     overflow |-> range_product(1, N).overflow, panic |-> FALSE]

\* ------------------------------------------------------ deck.rs (cards, turns)
MAX_ID == 12
MAX_COST == 6

\* A CardIdentity is modelled by a number: 0 is CardIdentity::None (the
\* default), 1 + b is Full(Card(b)) for the byte b, 257 + e is Cost(Energy(e)).
CardIdentity_None == 0
CardIdentity_Full(b) == 1 + b
CardIdentity_Cost(e) == 257 + e
CardIdentity_default == CardIdentity_None

IsFull(c) == c \in 1 .. 256
IsCost(c) == c >= 257

\* Card::new(id, cost): the byte (id << 4) | cost; cost <= MAX_COST < 16
Card_new(id, cost) ==
    [panic |-> id >= MAX_ID \/ cost > MAX_COST, card |-> id * 16 + cost]

\* Card::id(): self.0 >> 4
Card_id(b) == b \div 16

\* CardIdentity::id()
CardIdentity_id(c) ==
    IF IsFull(c) THEN [some |-> TRUE, id |-> Card_id(c - 1)]
    ELSE [some |-> FALSE, id |-> 0]

Turn(number, energy) == [number |-> number, energy |-> energy]

\* ------------------------------------------------------------- condition.rs
\* A condition object is a record tagged with the name of its struct; the
\* children of AllOf / AnyOf are a sequence (the Vec, index i of the Vec is
\* index i + 1 of the sequence).
CardIdCondition_new(id) == [kind |-> "CardIdCondition", id |-> id]
ComesAtOrBeforeCondition_new(turn_number) ==
    [kind |-> "ComesAtOrBeforeCondition", number |-> turn_number]
AllOf_new(all) == [kind |-> "AllOf", all |-> all]
AnyOf_new(any) == [kind |-> "AnyOf", any |-> any]
LockConditionResult_new(condition) ==
    [kind |-> "LockConditionResult", result |-> FALSE, condition |-> condition]

\* A call of check is logged as the path of Vec indices from the object the
\* outermost call was made on (a lock's child has index 0), with the arguments.
Logged(path, card, turn) == <<[path |-> path, card |-> card, turn |-> turn]>>

\* check returns [c |-> the object after the call, r |-> the bool returned,
\*                log |-> the check calls made, in order]
RECURSIVE check(_, _, _, _)
RECURSIVE AllOf_loop(_, _, _, _, _)
RECURSIVE AnyOf_loop(_, _, _, _, _)

\* CardIdCondition::check that compares the cost of a cost-only card too
CardIdCondition_check_cost(c, path, card, turn) ==
    [c |-> c,
     r |-> \/ CardIdentity_id(card) = [some |-> TRUE, id |-> c.id]
           \/ card = CardIdentity_Cost(c.id),
     log |-> Logged(path, card, turn)]

CardIdCondition_check(c, path, card, turn) ==
    [c |-> c,
     r |-> CardIdentity_id(card) = [some |-> TRUE, id |-> c.id],
     log |-> Logged(path, card, turn)]

\* ComesAtOrBeforeCondition::check with the threshold excluded
ComesAtOrBeforeCondition_check_before(c, path, card, turn) ==
    [c |-> c, r |-> turn.number < c.number, log |-> Logged(path, card, turn)]

ComesAtOrBeforeCondition_check(c, path, card, turn) ==
    [c |-> c, r |-> turn.number <= c.number, log |-> Logged(path, card, turn)]

\* the loop of AllOf::check, stopping at the first false
AllOf_loop_short(w, i, path, card, turn) ==
    IF i > Len(w.all) \/ ~w.result THEN w
    ELSE LET h == check(w.all[i], Append(path, i - 1), card, turn)
         IN  AllOf_loop([all |-> [w.all EXCEPT ![i] = h.c],
                         result |-> w.result /\ h.r,
                         log |-> w.log \o h.log], i + 1, path, card, turn)

\* for condition in self.all.iter_mut() { result = result & condition.check(..) }
AllOf_loop(w, i, path, card, turn) ==
    IF i > Len(w.all) THEN w
    ELSE LET h == check(w.all[i], Append(path, i - 1), card, turn)
         IN  AllOf_loop([all |-> [w.all EXCEPT ![i] = h.c],
                         result |-> w.result /\ h.r,
                         log |-> w.log \o h.log], i + 1, path, card, turn)

\* AllOf::check that starts from false
AllOf_check_false(c, path, card, turn) ==
    LET w == AllOf_loop([all |-> c.all, result |-> FALSE,
                         log |-> Logged(path, card, turn)], 1, path, card, turn)
    IN  [c |-> [c EXCEPT !.all = w.all], r |-> w.result, log |-> w.log]

AllOf_check(c, path, card, turn) ==
    LET w == AllOf_loop([all |-> c.all, result |-> TRUE,
                         log |-> Logged(path, card, turn)], 1, path, card, turn)
    IN  [c |-> [c EXCEPT !.all = w.all], r |-> w.result, log |-> w.log]

\* for condition in self.any.iter_mut() { result = result | condition.check(..) }
AnyOf_loop(w, i, path, card, turn) ==
    IF i > Len(w.any) THEN w
    ELSE LET h == check(w.any[i], Append(path, i - 1), card, turn)
         IN  AnyOf_loop([any |-> [w.any EXCEPT ![i] = h.c],
                         result |-> w.result \/ h.r,
                         log |-> w.log \o h.log], i + 1, path, card, turn)

AnyOf_check(c, path, card, turn) ==
    LET w == AnyOf_loop([any |-> c.any, result |-> FALSE,
                         log |-> Logged(path, card, turn)], 1, path, card, turn)
    IN  [c |-> [c EXCEPT !.any = w.any], r |-> w.result, log |-> w.log]

\* LockConditionResult::check that stores nothing
LockConditionResult_check_forgetful(c, path, card, turn) ==
    LET h == check(c.condition, Append(path, 0), card, turn)
    IN  [c |-> [c EXCEPT !.condition = h.c], r |-> h.r,
         log |-> Logged(path, card, turn) \o h.log]

LockConditionResult_check(c, path, card, turn) ==
    IF c.result THEN [c |-> c, r |-> TRUE, log |-> Logged(path, card, turn)]
    ELSE LET h == check(c.condition, Append(path, 0), card, turn)
         IN  [c |-> [c EXCEPT !.result = c.result \/ h.r, !.condition = h.c],
              r |-> c.result \/ h.r,
              log |-> Logged(path, card, turn) \o h.log]

\* dyn Condition: the check of the struct the object belongs to
check(c, path, card, turn) ==
    CASE c.kind = "CardIdCondition" -> CardIdCondition_check(c, path, card, turn)
      [] c.kind = "ComesAtOrBeforeCondition" ->
             ComesAtOrBeforeCondition_check(c, path, card, turn)
      [] c.kind = "AllOf" -> AllOf_check(c, path, card, turn)
      [] c.kind = "AnyOf" -> AnyOf_check(c, path, card, turn)
      [] c.kind = "LockConditionResult" -> LockConditionResult_check(c, path, card, turn)

RECURSIVE next_deck(_)

\* LockConditionResult::next_deck that keeps the latch
LockConditionResult_next_deck_keep(c) ==
    [c EXCEPT !.condition = next_deck(c.condition)]

LockConditionResult_next_deck(c) ==
    [c EXCEPT !.result = FALSE, !.condition = next_deck(c.condition)]

\* AllOf::next_deck that leaves the children alone
AllOf_next_deck_idle(c) == c

AllOf_next_deck(c) ==
    [c EXCEPT !.all = [i \in 1 .. Len(c.all) |-> next_deck(c.all[i])]]

AnyOf_next_deck(c) ==
    [c EXCEPT !.any = [i \in 1 .. Len(c.any) |-> next_deck(c.any[i])]]

\* dyn Condition: the next_deck of the struct the object belongs to
next_deck(c) ==
    CASE c.kind = "CardIdCondition" -> c
      [] c.kind = "ComesAtOrBeforeCondition" -> c
      [] c.kind = "AllOf" -> AllOf_next_deck(c)
      [] c.kind = "AnyOf" -> AnyOf_next_deck(c)
      [] c.kind = "LockConditionResult" -> LockConditionResult_next_deck(c)

\* LockConditionResult::accept without the early return
LockConditionResult_accept_always(c, card, turn) ==
    LET h == check(c.condition, <<0>>, card, turn)
    IN  [c |-> [c EXCEPT !.result = c.result \/ h.r, !.condition = h.c],
         log |-> h.log]

\* LockConditionResult::accept (inherent): check without a return value
LockConditionResult_accept(c, card, turn) ==
    IF c.result THEN [c |-> c, log |-> <<>>]
    ELSE LET h == check(c.condition, <<0>>, card, turn)
         IN  [c |-> [c EXCEPT !.result = c.result \/ h.r, !.condition = h.c],
              log |-> h.log]

LockConditionResult_result(c) == c.result

\* -------------------------------------------------------- condition_count.rs
ConditionCount_new(name, condition) ==
    [kind |-> "ConditionCount", name |-> name,
     condition |-> LockConditionResult_new(condition),
     count |-> 0, total_amount |-> 0]

\* Analysis::accept for ConditionCount
ConditionCount_accept(a, card, turn) ==
    [a EXCEPT !.condition = LockConditionResult_accept(a.condition, card, turn).c]

\* Analysis::next_deck for ConditionCount that counts every deck
ConditionCount_next_deck_always(a) ==
    [a EXCEPT !.total_amount = a.total_amount + 1,
              !.count = a.count + 1,
              !.condition = LockConditionResult_next_deck(a.condition)]

\* Analysis::next_deck for ConditionCount that leaves the latch as it is
ConditionCount_next_deck_latched(a) ==
    [a EXCEPT !.total_amount = a.total_amount + 1,
              !.count = IF LockConditionResult_result(a.condition)
                        THEN a.count + 1 ELSE a.count]

\* Analysis::next_deck for ConditionCount
ConditionCount_next_deck(a) ==
    [a EXCEPT !.total_amount = a.total_amount + 1,
              !.count = IF LockConditionResult_result(a.condition)
                        THEN a.count + 1 ELSE a.count,
              !.condition = LockConditionResult_next_deck(a.condition)]

\* Analysis::result for ConditionCount
ConditionCount_result(a) ==
    [name |-> a.name, count |-> a.count, total_amount |-> a.total_amount]

\* --------------------------------------------------------- cost_efficiency.rs
u8_MAX == 255

\* EnergyProfile::<M>::default()
EnergyProfile_default(M) == [e \in 0 .. M - 1 |-> 0]

\* CostEfficiencyAnalysis::<M>::new; "overflow" records that a u8 addition
\* left the range of u8 (a panic of a debug build, a wrap of a release build)
CostEfficiencyAnalysis_new(M, name) ==
    [kind |-> "CostEfficiencyAnalysis", name |-> name, M |-> M,
     total_spent |-> 0, number_of_decks |-> 0,
     energy_left |-> 0, energy_spent |-> 0, last_turn |-> u8_MAX,
     energy_profile |-> EnergyProfile_default(M),
     overflow |-> FALSE]

\* the loop of spend_from_min_to_max from energy e on; w = [profile, left, spent]
RECURSIVE min_to_max_loop(_, _, _)
min_to_max_loop(w, e, M) ==
    IF e >= M THEN w
    ELSE IF w.left < e THEN w
    ELSE IF w.profile[e] > 0
         THEN min_to_max_loop([profile |-> [w.profile EXCEPT ![e] = @ - 1],
                               left |-> w.left - e,
                               spent |-> w.spent + e], e + 1, M)
         ELSE min_to_max_loop(w, e + 1, M)

spend_from_min_to_max(a) ==
    min_to_max_loop([profile |-> a.energy_profile, left |-> a.energy_left,
                     spent |-> 0], 0, a.M)

\* the loop of spend_from_max_to_min that stops at the first energy it
\* cannot afford
RECURSIVE max_to_min_loop_break(_, _)
max_to_min_loop_break(w, e) ==
    IF e < 0 THEN w
    ELSE IF w.left < e THEN w
    ELSE IF w.profile[e] > 0
         THEN max_to_min_loop_break([profile |-> [w.profile EXCEPT ![e] = @ - 1],
                                     left |-> w.left - e,
                                     spent |-> w.spent + e], e - 1)
         ELSE max_to_min_loop_break(w, e - 1)

\* the loop of spend_from_max_to_min from energy e down
RECURSIVE max_to_min_loop(_, _)
max_to_min_loop(w, e) ==
    IF e < 0 THEN w
    ELSE IF w.left < e THEN max_to_min_loop(w, e - 1)
    ELSE IF w.profile[e] > 0
         THEN max_to_min_loop([profile |-> [w.profile EXCEPT ![e] = @ - 1],
                               left |-> w.left - e,
                               spent |-> w.spent + e], e - 1)
         ELSE max_to_min_loop(w, e - 1)

spend_from_max_to_min(a) ==
    max_to_min_loop([profile |-> a.energy_profile, left |-> a.energy_left,
                     spent |-> 0], a.M - 1)

\* CostEfficiencyAnalysis::accept(cost, turn) (inherent) that spends nothing
CostEfficiencyAnalysis_accept_idle(a, cost, turn) ==
    [a |-> a, panic |-> cost >= a.M, debug |-> [a |-> a, panic |-> cost >= a.M]]

\* the first statements of accept: self.energy_profile[cost] += 1 and the
\* refill of energy_left on a new turn number
CostEfficiencyAnalysis_add(a, cost, turn) ==
    [a EXCEPT !.energy_profile[cost] = (@ + 1) % (u8_MAX + 1),
              !.last_turn = turn.number,
              !.energy_left = IF a.last_turn # turn.number
                              THEN turn.energy ELSE a.energy_left]

\* the rest of accept, on the object b the first statements left
CostEfficiencyAnalysis_spend(b, up, down) ==
    [b EXCEPT !.energy_spent = (@ + (IF up.spent > down.spent
                                     THEN up.spent ELSE down.spent))
                                   % (u8_MAX + 1),
              !.energy_profile = IF up.spent > down.spent
                                 THEN up.profile ELSE down.profile,
              !.overflow = \/ b.overflow
                           \/ b.energy_spent + (IF up.spent > down.spent
                                                THEN up.spent ELSE down.spent)
                                  > u8_MAX]

\* CostEfficiencyAnalysis::accept(cost, turn) that keeps the profile of the
\* ascending strategy on a tie
CostEfficiencyAnalysis_accept_tie(a, cost, turn) ==
    IF cost >= a.M
    THEN [a |-> a, panic |-> TRUE, debug |-> [a |-> a, panic |-> TRUE]]
    ELSE LET b == CostEfficiencyAnalysis_add(a, cost, turn)
             up == spend_from_min_to_max(b)
             down == spend_from_max_to_min(b)
             c == [CostEfficiencyAnalysis_spend(b, up, down)
                      EXCEPT !.energy_profile = IF up.spent >= down.spent
                                                THEN up.profile
                                                ELSE down.profile]
         IN  [a |-> c, panic |-> FALSE, debug |-> [a |-> c, panic |-> FALSE]]

\* CostEfficiencyAnalysis::accept(cost, turn) (inherent); indexing the
\* profile with cost >= M panics.  a and panic are the outcome of a release
\* build, where a u8 sum wraps; debug is the outcome of a debug build, which
\* panics at the first sum that leaves the range of u8: at
\* self.energy_profile[cost] += 1 with the object as it was before the call,
\* at self.energy_spent += .. with the profile incremented and the turn
\* taken, and the profile of the strategy not yet stored.
CostEfficiencyAnalysis_accept(a, cost, turn) ==
    IF cost >= a.M
    THEN [a |-> a, panic |-> TRUE, debug |-> [a |-> a, panic |-> TRUE]]
    ELSE LET b == [CostEfficiencyAnalysis_add(a, cost, turn)
                      EXCEPT !.overflow = a.overflow
                                 \/ a.energy_profile[cost] + 1 > u8_MAX]
             up == spend_from_min_to_max(b)
             down == spend_from_max_to_min(b)
             c == CostEfficiencyAnalysis_spend(b, up, down)
         IN  [a |-> c, panic |-> FALSE,
              debug |->
                  IF a.energy_profile[cost] + 1 > u8_MAX
                  THEN [a |-> [a EXCEPT !.overflow = TRUE], panic |-> TRUE]
                  ELSE IF b.energy_spent + (IF up.spent > down.spent
                                            THEN up.spent ELSE down.spent) > u8_MAX
                  THEN [a |-> [b EXCEPT !.overflow = TRUE], panic |-> TRUE]
                  ELSE [a |-> c, panic |-> FALSE]]

\* CostEfficiencyAnalysis::next_deck that keeps the turn and its energy
CostEfficiencyAnalysis_next_deck_keep(a) ==
    [a EXCEPT !.total_spent = a.total_spent + a.energy_spent,
              !.number_of_decks = a.number_of_decks + 1,
              !.energy_spent = 0,
              !.energy_profile = EnergyProfile_default(a.M)]

\* CostEfficiencyAnalysis::next_deck (inherent)
CostEfficiencyAnalysis_next_deck(a) ==
    [a EXCEPT !.total_spent = a.total_spent + a.energy_spent,
              !.number_of_decks = a.number_of_decks + 1,
              !.last_turn = u8_MAX,
              !.energy_spent = 0,
              !.energy_left = 0,
              !.energy_profile = EnergyProfile_default(a.M)]

\* Analysis::accept for CostEfficiencyAnalysis that takes the cost of a Full
\* card (the low four bits) and ignores None
CostEfficiencyAnalysis_trait_accept_any(a, card, turn) ==
    IF IsCost(card) THEN CostEfficiencyAnalysis_accept(a, card - 257, turn)
    ELSE IF IsFull(card) THEN CostEfficiencyAnalysis_accept(a, (card - 1) % 16, turn)
    ELSE [a |-> a, panic |-> FALSE, debug |-> [a |-> a, panic |-> FALSE]]

\* Analysis::accept for CostEfficiencyAnalysis: only Cost cards are accepted
CostEfficiencyAnalysis_trait_accept(a, card, turn) ==
    IF IsCost(card) THEN CostEfficiencyAnalysis_accept(a, card - 257, turn)
    ELSE [a |-> a, panic |-> TRUE, debug |-> [a |-> a, panic |-> TRUE]]

\* Analysis::result for CostEfficiencyAnalysis
CostEfficiencyAnalysis_result(a) ==
    [name |-> a.name, total_spent |-> a.total_spent,
     number_of_decks |-> a.number_of_decks]

\* ----------------------------------------------------------------- analyse.rs
\* dyn Analysis: accept, next_deck and result of the struct of the object
Analysis_accept(a, card, turn) ==
    IF a.kind = "ConditionCount"
    THEN [a |-> ConditionCount_accept(a, card, turn), panic |-> FALSE,
          debug |-> [a |-> ConditionCount_accept(a, card, turn), panic |-> FALSE]]
    ELSE CostEfficiencyAnalysis_trait_accept(a, card, turn)

\* analysis.accept(card, turn) in the program as it was built: the object
\* after the call, or at the panic, and whether the call panicked
Analysis_accept_build(a, card, turn, build) ==
    IF build = "debug" THEN Analysis_accept(a, card, turn).debug
    ELSE [a |-> Analysis_accept(a, card, turn).a,
          panic |-> Analysis_accept(a, card, turn).panic]

Analysis_next_deck(a) ==
    IF a.kind = "ConditionCount" THEN ConditionCount_next_deck(a)
    ELSE CostEfficiencyAnalysis_next_deck(a)

Analysis_result(a) ==
    IF a.kind = "ConditionCount" THEN ConditionCount_result(a)
    ELSE CostEfficiencyAnalysis_result(a)

PERMUTATION_COUNT_WARNING_THRESHOLD == 10000000

\* AnalysisExecutor::<N>::new
AnalysisExecutor_new(N, deck, turn_profile, analysis) ==
    [N |-> N, deck |-> deck, analysis |-> analysis, turn_profile |-> turn_profile]

\* PermutationIterator<Deck<CardIdentity, N>>: the type parameter T of execute
\* is the name of the composer
Composers == {"DeckPermutationIterator", "AllPermutationsIterator"}

T_new(T, N, deck) ==
    IF T = "DeckPermutationIterator" THEN DeckPermutationIterator_new(N, deck)
    ELSE AllPermutationsIterator_new(card_iter(deck))

T_new_panics(T, p) == T = "DeckPermutationIterator" /\ p.panic

\* the Option<Deck> a next() returns and the composer after it, in one shape
\* for both composers; debug is the outcome of a debug build where it differs
\* from that of a release build
DeckPermutationIterator_step(r) ==
    [p |-> r.d, some |-> r.ret.some /\ ~r.d.panic, deck |-> r.ret.deck,
     panic |-> r.d.panic, overflow |-> r.overflow,
     debug |-> [p |-> r.debug.d, some |-> r.debug.ret.some /\ ~r.debug.d.panic,
                deck |-> r.debug.ret.deck, panic |-> r.debug.d.panic]]

AllPermutationsIterator_step(r) ==
    [p |-> r.a, some |-> r.some, deck |-> r.deck, panic |-> r.panic,
     overflow |-> FALSE,
     debug |-> [p |-> r.a, some |-> r.some, deck |-> r.deck, panic |-> r.panic]]

\* what the call returned in the given build
T_next_in(r, build) == IF build = "debug" THEN r.debug ELSE r

T_next(T, N, p) ==
    IF T = "DeckPermutationIterator"
    THEN DeckPermutationIterator_step(DeckPermutationIterator_next(N, p))
    ELSE AllPermutationsIterator_step(AllPermutationsIterator_trait_next(N, p))

T_count(T, N, p) ==
    IF T = "DeckPermutationIterator" THEN DeckPermutationIterator_count(N, p)
    ELSE AllPermutationsIterator_count(N)

\* the calls execute makes on the analyses are logged: analysis is the index
\* in the Vec, i the index of the (card, turn) pair
AcceptCall(j, i, card, turn) ==
    [op |-> "accept", analysis |-> j, i |-> i, card |-> card, turn |-> turn]
NextDeckCall(j) == [op |-> "next_deck", analysis |-> j]

\* for analysis in self.analysis.iter_mut() { analysis.accept(card, *turn) },
\* from the analysis of index j - 1 on; w = [analysis, log, panic, build]
RECURSIVE accept_each(_, _, _, _, _)
accept_each(w, i, j, card, turn) ==
    IF j > Len(w.analysis) \/ w.panic THEN w
    ELSE LET r == Analysis_accept_build(w.analysis[j], card, turn, w.build)
         IN  accept_each([analysis |-> [w.analysis EXCEPT ![j] = r.a],
                          log |-> Append(w.log, AcceptCall(j - 1, i, card, turn)),
                          panic |-> r.panic, build |-> w.build],
                         i, j + 1, card, turn)

\* the loop over the pairs taking all the pairs to one analysis after the
\* other, from the analysis of index a on
RECURSIVE accept_deck_by_analysis(_, _, _, _, _)
accept_deck_by_analysis(w, deck, turn_profile, a, N) ==
    IF a >= Len(w.analysis) \/ w.panic THEN w
    ELSE LET RECURSIVE one(_, _)
             one(v, i) ==
                 IF i >= N \/ v.panic THEN v
                 ELSE LET r == Analysis_accept_build(v.analysis[a + 1], deck[i],
                                                     turn_profile[i], v.build)
                      IN  one([analysis |-> [v.analysis EXCEPT ![a + 1] = r.a],
                               log |-> Append(v.log,
                                          AcceptCall(a, i, deck[i], turn_profile[i])),
                               panic |-> r.panic, build |-> v.build], i + 1)
         IN  accept_deck_by_analysis(one(w, 0), deck, turn_profile, a + 1, N)

\* for (card, turn) in deck.card_iter().zip(self.turn_profile.turn_iter()),
\* from the pair of index i on
RECURSIVE accept_deck(_, _, _, _, _)
accept_deck(w, deck, turn_profile, i, N) ==
    IF i >= N \/ w.panic THEN w
    ELSE accept_deck(accept_each(w, i, 1, deck[i], turn_profile[i]),
                     deck, turn_profile, i + 1, N)

\* for analysis in self.analysis.iter_mut() { analysis.next_deck() }
RECURSIVE next_deck_each(_, _)
next_deck_each(w, j) ==
    IF j > Len(w.analysis) \/ w.panic THEN w
    ELSE next_deck_each([w EXCEPT !.analysis[j] = Analysis_next_deck(w.analysis[j]),
                                  !.log = Append(w.log, NextDeckCall(j - 1))],
                        j + 1)

\* the body of the while loop of execute for one deck, in a debug or a
\* release build: a panic ends it at the call that panics
execute_deck(x, deck, build) ==
    LET w0 == [analysis |-> x.analysis, log |-> <<>>, panic |-> FALSE,
               build |-> build]
        w1 == accept_deck(w0, card_iter(deck), x.turn_profile, 0, x.N)
    IN  next_deck_each(w1, 1)

\* Ok(self.analysis.iter().map(|a| a.result()).collect())
execute_results(x) == [j \in 1 .. Len(x.analysis) |-> Analysis_result(x.analysis[j])]

\* the warning test of execute that ignores suppress_warnings
execute_warns_always(T, x, p, suppress_warnings) ==
    u64_gt(T_count(T, x.N, p).value, u64_from(PERMUTATION_COUNT_WARNING_THRESHOLD))

\* suppress_warnings == SuppressWarnings::No
\*     && permutations.count() > PERMUTATION_COUNT_WARNING_THRESHOLD
execute_warns(T, x, p, suppress_warnings) ==
    /\ suppress_warnings = "No"
    /\ u64_gt(T_count(T, x.N, p).value, u64_from(PERMUTATION_COUNT_WARNING_THRESHOLD))

\* permutations.count() of the warning test panics: it is called only when
\* warnings are not suppressed, and panics at a division by zero or, in a
\* debug build, at a product above u64::MAX
execute_count_panics(T, x, p, suppress_warnings, build) ==
    /\ suppress_warnings = "No"
    /\ \/ T_count(T, x.N, p).panic
       \/ T_count(T, x.N, p).overflow /\ build = "debug"

\* ------------------------------------------- results of count()
\* count() has not been called
NoCount == [called |-> FALSE, panic |-> FALSE, value |-> u64_from(0)]

\* what a call of count() that computed c gives in the build: a panic, at a
\* division by zero or in a debug build at a product above u64::MAX, or the
\* u64 returned
count_returns(c, build) ==
    IF c.panic \/ (c.overflow /\ build = "debug")
    THEN [called |-> TRUE, panic |-> TRUE, value |-> u64_from(0)]
    ELSE [called |-> TRUE, panic |-> FALSE, value |-> c.value]

\* ------------------------------------------- placement enumerator alone
\* number of exhaust/reset cycles explored
MaxCycles == 2

NoDeck == <<>>
NoDpi == [panic |-> FALSE]
NoApi == [i |-> 0]
NoIt == PlacementIterator_new(1, 1, 1)
NoCnd == [op |-> "none"]
NoDrv == [pc |-> "none"]
NoMap == [op |-> "none"]
NoAna == [op |-> "none"]

\* exhaustion has been reported: the last call was a next() that returned None
Reported == call.op = "next" /\ ~call.some

\* let it = PlacementIterator::<cap>::new(n, k)
PInit ==
    /\ cap \in 1 .. MaxCap
    /\ req \in [n : 0 .. MaxCap + 1, k : 0 .. MaxCap + 1]
    /\ req.n <= cap + 1 /\ req.k <= cap + 1
    /\ it = PlacementIterator_new(cap, req.n, req.k)
    /\ out = <<>>
    /\ first = <<>>
    /\ call = [op |-> "new", ok |-> ~it.panic, some |-> FALSE,
               emitted |-> 0, reported |-> FALSE]
    /\ cycles = 0
    /\ sample = NoDeck /\ dpi = NoDpi /\ api = NoApi
    /\ demit = <<>> /\ aemit = <<>> /\ dlast = "new" /\ alast = "new"
    /\ dcount = NoCount /\ acount = NoCount /\ cbuild = "release"
    /\ cnd = NoCnd /\ drv = NoDrv /\ pmap = NoMap /\ ana = NoAna

\* it.next()
PNext ==
    /\ ~it.panic
    /\ LET r == PlacementIterator_next(it)
           o == IF r.some /\ ~r.it.panic THEN Append(out, positions(r.item)) ELSE out
       IN  /\ it' = r.it
           /\ out' = o
           /\ first' = IF cycles = 0 THEN o ELSE first
           /\ call' = [op |-> "next", ok |-> ~r.it.panic, some |-> r.some,
                       emitted |-> Len(out), reported |-> Reported]
    /\ UNCHANGED <<cap, req, cycles>>
    /\ UNCHANGED <<cvars, kvars, xvars, mvars, ovars>>

\* it.reset()
PReset ==
    /\ ~it.panic
    /\ cycles < MaxCycles
    /\ LET r == PlacementIterator_reset(it)
       IN  /\ it' = r
           /\ out' = IF r.panic THEN out ELSE <<>>
           /\ cycles' = IF r.panic THEN cycles ELSE cycles + 1
           /\ call' = [op |-> "reset", ok |-> ~r.panic, some |-> FALSE,
                       emitted |-> Len(out), reported |-> Reported]
    /\ UNCHANGED <<cap, req, first>>
    /\ UNCHANGED <<cvars, kvars, xvars, mvars, ovars>>

PNextStep == PNext \/ PReset

SpecPlacement == PInit /\ [][PNextStep]_vars

\* ------------------------------------------- the two composers on one deck
DeckLen == Cardinality(DOMAIN sample)

\* The composers compare cards with == only and create T::default() (0), so
\* the cards other than 0 are interchangeable: they are numbered 1, 2, ... in
\* the order of their first occurrence.  Card 0 may stand anywhere or nowhere.
FirstOccurrenceOrder(deck) ==
    \A x \in DOMAIN deck :
        deck[x] # 0 =>
            \/ \E y \in DOMAIN deck : y < x /\ deck[y] = deck[x]
            \/ deck[x] = 1 + Cardinality({deck[y] : y \in {z \in DOMAIN deck : z < x}} \ {0})

\* let dpi = DeckPermutationIterator::new(sample);
\* let api = AllPermutationsIterator::new(sample)
CInit ==
    /\ \E N \in 0 .. MaxDeck : sample \in [0 .. N - 1 -> 0 .. MaxVal]
    /\ FirstOccurrenceOrder(sample)
    /\ dpi = DeckPermutationIterator_new(DeckLen, sample)
    /\ api = AllPermutationsIterator_new(card_iter(sample))
    /\ demit = <<>> /\ aemit = <<>>
    /\ dlast = "new" /\ alast = "new"
    /\ dcount = NoCount /\ acount = NoCount
    /\ cbuild \in {"debug", "release"}
    /\ cap = 1 /\ req = [n |-> 1, k |-> 1] /\ it = NoIt
    /\ out = <<>> /\ first = <<>> /\ cycles = 0
    /\ call = [op |-> "none", ok |-> TRUE, some |-> FALSE,
               emitted |-> 0, reported |-> FALSE]
    /\ cnd = NoCnd /\ drv = NoDrv /\ pmap = NoMap /\ ana = NoAna

\* dpi.next(); the composer of the empty deck never returns None in a
\* release build, and MaxEmpty calls of it are followed
DNext ==
    /\ ~dpi.panic /\ dlast # "panic"
    /\ DeckLen > 0 \/ Len(demit) < MaxEmpty
    /\ \E r \in {DeckPermutationIterator_step(DeckPermutationIterator_next(DeckLen, dpi))} :
           /\ dpi' = T_next_in(r, cbuild).p
           /\ dlast' = IF T_next_in(r, cbuild).panic THEN "panic"
                       ELSE IF T_next_in(r, cbuild).some THEN "some" ELSE "none"
           /\ demit' = IF T_next_in(r, cbuild).some
                       THEN Append(demit, T_next_in(r, cbuild).deck)
                       ELSE demit
    /\ UNCHANGED <<sample, api, aemit, alast, dcount, acount, cbuild>>
    /\ UNCHANGED <<pvars, kvars, xvars, mvars, ovars>>

\* dpi.count()
DCount ==
    /\ ~dpi.panic /\ dlast # "panic"
    /\ dcount' = count_returns(DeckPermutationIterator_count(DeckLen, dpi), cbuild)
    /\ UNCHANGED <<sample, dpi, api, demit, aemit, dlast, alast, acount, cbuild>>
    /\ UNCHANGED <<pvars, kvars, xvars, mvars, ovars>>

\* the run of the optimized composer is over: it was counted and has returned
\* None or, on the empty deck, has panicked or was called MaxEmpty times
DPhaseOver ==
    \/ dlast = "none" /\ dcount.called
    \/ DeckLen = 0 /\ (dlast = "panic" \/ Len(demit) >= MaxEmpty)

\* api.next(), once the run of the optimized composer is over
ANext ==
    /\ DPhaseOver
    /\ alast # "panic"
    /\ LET r == AllPermutationsIterator_trait_next(DeckLen, api)
       IN  /\ api' = r.a
           /\ alast' = IF r.panic THEN "panic"
                       ELSE IF r.some THEN "some" ELSE "none"
           /\ aemit' = IF r.some THEN Append(aemit, r.deck) ELSE aemit
    /\ UNCHANGED <<sample, dpi, demit, dlast, dcount, acount, cbuild>>
    /\ UNCHANGED <<pvars, kvars, xvars, mvars, ovars>>

\* api.count()
ACount ==
    /\ DPhaseOver
    /\ alast # "panic"
    /\ acount' = count_returns(AllPermutationsIterator_count(DeckLen), cbuild)
    /\ UNCHANGED <<sample, dpi, api, demit, aemit, dlast, alast, dcount, cbuild>>
    /\ UNCHANGED <<pvars, kvars, xvars, mvars, ovars>>

CNextStep == DNext \/ DCount \/ ANext \/ ACount

SpecCompose == CInit /\ [][CNextStep]_vars

\* ------------------------------------------- count() at the capacity of main.rs
\* the decks of MAX_ID cards, one for every way to cut the deck into runs
\* of equal cards: the cards of a run carry the number of the run
Runs == {[x \in 0 .. MAX_ID - 1 |-> Cardinality({c \in S : c <= x})] :
             S \in SUBSET (1 .. MAX_ID - 1)}

\* let dpi = DeckPermutationIterator::<_, { MAX_ID as usize }>::new(sample)
QInit ==
    /\ sample \in Runs
    /\ dpi = DeckPermutationIterator_new(MAX_ID, sample)
    /\ api = NoApi
    /\ demit = <<>> /\ aemit = <<>>
    /\ dlast = "new" /\ alast = "new"
    /\ dcount = NoCount /\ acount = NoCount
    /\ cbuild \in {"debug", "release"}
    /\ cap = 1 /\ req = [n |-> 1, k |-> 1] /\ it = NoIt
    /\ out = <<>> /\ first = <<>> /\ cycles = 0
    /\ call = [op |-> "none", ok |-> TRUE, some |-> FALSE,
               emitted |-> 0, reported |-> FALSE]
    /\ cnd = NoCnd /\ drv = NoDrv /\ pmap = NoMap /\ ana = NoAna

\* dpi.count()
QCount ==
    /\ ~dpi.panic /\ ~dcount.called
    /\ dcount' = count_returns(DeckPermutationIterator_count(MAX_ID, dpi), cbuild)
    /\ UNCHANGED <<sample, dpi, api, demit, aemit, dlast, alast, acount, cbuild>>
    /\ UNCHANGED <<pvars, kvars, xvars, mvars, ovars>>

QNextStep == QCount

SpecCount == QInit /\ [][QNextStep]_vars

\* ------------------------------------------- a condition object alone
\* card ids 0..MaxCardId and turn thresholds 0..MaxTurn occur in the conditions
MaxCardId == 1
MaxTurn == 2

IdTurn(i, t) ==
    AllOf_new(<<CardIdCondition_new(i), ComesAtOrBeforeCondition_new(t)>>)

\* analysis_2_cards_come_at_or_before of condition_count.rs, without ConditionCount
TwoCards(a, b) ==
    AllOf_new(<<LockConditionResult_new(IdTurn(0, a)),
                LockConditionResult_new(IdTurn(1, b))>>)

\* the condition objects explored: the trees built by the tests, and trees
\* with latches below AllOf / AnyOf nodes
Conditions ==
    LET I == 0 .. MaxCardId
        T == 0 .. MaxTurn
    IN  {LockConditionResult_new(CardIdCondition_new(i)) : i \in I}
        \cup {LockConditionResult_new(LockConditionResult_new(CardIdCondition_new(i))) : i \in I}
        \cup {IdTurn(i, t) : i \in I, t \in T}
        \cup {LockConditionResult_new(IdTurn(i, t)) : i \in I, t \in T}
        \cup {AnyOf_new(<<CardIdCondition_new(i), ComesAtOrBeforeCondition_new(t)>>) :
                  i \in I, t \in T}
        \cup {TwoCards(a, b) : a \in T, b \in T}
        \cup {LockConditionResult_new(TwoCards(a, b)) : a \in T, b \in T}
        \cup {AllOf_new(<<>>), AnyOf_new(<<>>),
              LockConditionResult_new(AllOf_new(<<>>)),
              LockConditionResult_new(AnyOf_new(<<>>))}
        \cup {AllOf_new(<<ComesAtOrBeforeCondition_new(t),
                          LockConditionResult_new(CardIdCondition_new(i)),
                          LockConditionResult_new(CardIdCondition_new(0))>>) :
                  i \in I, t \in T}
        \cup {AnyOf_new(<<LockConditionResult_new(CardIdCondition_new(i)),
                          LockConditionResult_new(ComesAtOrBeforeCondition_new(t)),
                          CardIdCondition_new(0)>>) : i \in I, t \in T}
        \cup {CardIdCondition_new(i) : i \in I}
        \cup {ComesAtOrBeforeCondition_new(t) : t \in T}

\* the arguments of check: cards with and without an id, turns up to one
\* past the largest threshold
Cards ==
    {CardIdentity_None, CardIdentity_Cost(1)}
        \cup {CardIdentity_Full(Card_new(i, 0).card) : i \in 0 .. MaxCardId + 1}
Turns == {Turn(n, 0) : n \in 0 .. MaxTurn + 1}

\* a condition without children is also checked with turns that carry energy
IsLeaf(c) == c.kind \in {"CardIdCondition", "ComesAtOrBeforeCondition"}
TurnsFor(c) ==
    IF IsLeaf(c) THEN {Turn(n, e) : n \in 0 .. MaxTurn + 1, e \in 0 .. 1}
    ELSE Turns

\* let cnd = <one of Conditions>
KInit ==
    /\ \E c \in Conditions :
           cnd = [tree |-> c, op |-> "new", prev |-> "none",
                  card |-> CardIdentity_None, turn |-> Turn(0, 0),
                  r |-> FALSE, log |-> <<>>, before |-> c,
                  was |-> FALSE, latched |-> FALSE]
    /\ cap = 1 /\ req = [n |-> 1, k |-> 1] /\ it = NoIt
    /\ out = <<>> /\ first = <<>> /\ cycles = 0
    /\ call = [op |-> "none", ok |-> TRUE, some |-> FALSE,
               emitted |-> 0, reported |-> FALSE]
    /\ sample = NoDeck /\ dpi = NoDpi /\ api = NoApi
    /\ demit = <<>> /\ aemit = <<>> /\ dlast = "new" /\ alast = "new"
    /\ dcount = NoCount /\ acount = NoCount /\ cbuild = "release"
    /\ drv = NoDrv /\ pmap = NoMap /\ ana = NoAna

\* cnd.check(card, turn); "latched" records that a check has returned true
\* since the object was built or next_deck was called
KCheck ==
    /\ \E card \in Cards, turn \in TurnsFor(cnd.tree) :
           LET h == check(cnd.tree, <<>>, card, turn)
           IN  cnd' = [tree |-> h.c, op |-> "check", prev |-> cnd.op,
                       card |-> card, turn |-> turn, r |-> h.r, log |-> h.log,
                       before |-> cnd.tree, was |-> cnd.latched,
                       latched |-> cnd.latched \/ h.r]
    /\ UNCHANGED <<pvars, cvars, xvars, mvars, ovars>>

\* cnd.accept(card, turn), for a LockConditionResult
KAccept ==
    /\ cnd.tree.kind = "LockConditionResult"
    /\ \E card \in Cards, turn \in Turns :
           LET h == LockConditionResult_accept(cnd.tree, card, turn)
           IN  cnd' = [tree |-> h.c, op |-> "accept", prev |-> cnd.op,
                       card |-> card, turn |-> turn,
                       r |-> LockConditionResult_result(h.c), log |-> h.log,
                       before |-> cnd.tree, was |-> cnd.latched,
                       latched |-> cnd.latched]
    /\ UNCHANGED <<pvars, cvars, xvars, mvars, ovars>>

\* cnd.next_deck()
KNextDeck ==
    /\ cnd' = [tree |-> next_deck(cnd.tree), op |-> "next_deck", prev |-> cnd.op,
               card |-> cnd.card, turn |-> cnd.turn, r |-> FALSE, log |-> <<>>,
               before |-> cnd.tree, was |-> cnd.latched, latched |-> FALSE]
    /\ UNCHANGED <<pvars, cvars, xvars, mvars, ovars>>

KNextStep == KCheck \/ KAccept \/ KNextDeck

SpecCondition == KInit /\ [][KNextStep]_vars

\* ------------------------------------------- the driver (AnalysisExecutor)
\* number of decks the loop of execute is followed for; every composer of a
\* deck of at most 4 cards is exhausted within it
MaxRun == 25

\* From<[T; N]> for Deck<T, N> and From<[Turn; N]> for TurnProfile<N>
Deck_from(value) == [x \in 0 .. Len(value) - 1 |-> value[x + 1]]
TurnProfile_from(value) == [x \in 0 .. Len(value) - 1 |-> value[x + 1]]

\* fn card(id, cost) of tests.rs
card(id, cost) ==
    [panic |-> Card_new(id, cost).panic,
     identity |-> CardIdentity_Full(Card_new(id, cost).card)]

\* tests.rs: test_three_card_deck_comes_at_or_before_condition
ScenarioA(comes_at_or_before) ==
    AnalysisExecutor_new(3,
        Deck_from(<<card(0, 0).identity, CardIdentity_None, CardIdentity_None>>),
        TurnProfile_from(<<Turn(0, 0), Turn(1, 0), Turn(2, 0)>>),
        <<ConditionCount_new("should be in n of cases",
                             IdTurn(0, comes_at_or_before))>>)

\* tests.rs: four_card_deck_first_card_and_second_card_comes_at_2_and_3
ScenarioB ==
    AnalysisExecutor_new(4,
        Deck_from(<<card(0, 0).identity, card(1, 0).identity, CardIdentity_None, CardIdentity_None>>),
        TurnProfile_from(<<Turn(0, 0), Turn(1, 0), Turn(2, 0), Turn(3, 0)>>),
        <<ConditionCount_new("should be in 4 of 12 cases",
                             LockConditionResult_new(TwoCards(1, 2)))>>)

\* tests.rs: calculate_cost_efficiency_for_4_card_deck on four cards of one cost
ScenarioC(cost) ==
    AnalysisExecutor_new(4,
        Deck_from(<<CardIdentity_Cost(cost), CardIdentity_Cost(cost),
                    CardIdentity_Cost(cost), CardIdentity_Cost(cost)>>),
        TurnProfile_from(<<Turn(1, 1), Turn(2, 2), Turn(3, 3), Turn(4, 4)>>),
        <<CostEfficiencyAnalysis_new(7, "Cost efficiiency")>>)

\* a deck of N cards: n cards of distinct ids and N - n times CardIdentity::None,
\* with one ConditionCount and the turns 0 .. N - 1
Padded(N, n) ==
    AnalysisExecutor_new(N,
        [x \in 0 .. N - 1 |-> IF x < n THEN card(x, 0).identity ELSE CardIdentity_None],
        [x \in 0 .. N - 1 |-> Turn(x, 0)],
        <<ConditionCount_new("first", IdTurn(0, 0))>>)

\* several analyses on one deck
TwoCounts ==
    AnalysisExecutor_new(3,
        Deck_from(<<card(0, 0).identity, card(1, 0).identity, CardIdentity_None>>),
        TurnProfile_from(<<Turn(0, 0), Turn(1, 0), Turn(2, 0)>>),
        <<ConditionCount_new("a", IdTurn(0, 0)),
          ConditionCount_new("b", AnyOf_new(<<CardIdCondition_new(1),
                                             ComesAtOrBeforeCondition_new(0)>>)),
          ConditionCount_new("c", AllOf_new(<<>>))>>)

CostAndCount ==
    AnalysisExecutor_new(3,
        Deck_from(<<CardIdentity_Cost(1), CardIdentity_Cost(2), CardIdentity_Cost(1)>>),
        TurnProfile_from(<<Turn(1, 1), Turn(1, 1), Turn(2, 3)>>),
        <<CostEfficiencyAnalysis_new(7, "cost"),
          ConditionCount_new("never", CardIdCondition_new(0))>>)

\* a CostEfficiencyAnalysis given a card that is not a Cost card
CostOnFull ==
    AnalysisExecutor_new(2,
        Deck_from(<<CardIdentity_Cost(1), card(0, 1).identity>>),
        TurnProfile_from(<<Turn(1, 1), Turn(2, 2)>>),
        <<ConditionCount_new("a", CardIdCondition_new(0)),
          CostEfficiencyAnalysis_new(7, "cost")>>)

\* a CostEfficiencyAnalysis given CardIdentity::None
CostOnNone ==
    AnalysisExecutor_new(2,
        Deck_from(<<CardIdentity_Cost(1), CardIdentity_None>>),
        TurnProfile_from(<<Turn(1, 1), Turn(2, 2)>>),
        <<ConditionCount_new("a", CardIdCondition_new(0)),
          CostEfficiencyAnalysis_new(7, "cost")>>)

\* the drivers explored: the scenarios of tests.rs, drivers with several
\* analyses, and decks whose number of orderings lies on both sides of the
\* warning threshold (12!/5! = 3991680, 12!/4! = 19958400, 10!, 11!, 12!)
Executors ==
    {ScenarioA(t) : t \in 0 .. 2}
        \cup {ScenarioB, ScenarioC(1), ScenarioC(4), TwoCounts, CostAndCount,
              CostOnFull, CostOnNone}
        \cup {Padded(12, 7), Padded(12, 8), Padded(12, 12), Padded(11, 11),
              Padded(10, 10), Padded(4, 4), Padded(1, 1)}

NoPerms == [none |-> TRUE]

\* Warning::TooManyPermutations(count), and no warning
TooManyPermutations(count) == [some |-> TRUE, count |-> count]

NoWarning == [some |-> FALSE, count |-> u64_from(0)]

\* return Err((self, Warning::TooManyPermutations(..))): self as it was given
execute_err(x) == x

\* let drv = AnalysisExecutor::new(..); the composer T and the argument of
\* the first call of execute are chosen here
XInit ==
    /\ \E x \in Executors, T \in Composers, s \in {"Yes", "No"} :
           drv = [exe |-> x, init |-> x, T |-> T, suppress |-> s, pc |-> "start",
                  perms |-> NoPerms, warning |-> NoWarning, results |-> <<>>,
                  decks |-> 0, last |-> <<>>, log |-> <<>>,
                  accepts |-> [j \in 1 .. Len(x.analysis) |-> 0],
                  next_decks |-> [j \in 1 .. Len(x.analysis) |-> 0],
                  calls |-> 0]
    /\ cap = 1 /\ req = [n |-> 1, k |-> 1] /\ it = NoIt
    /\ out = <<>> /\ first = <<>> /\ cycles = 0
    /\ call = [op |-> "none", ok |-> TRUE, some |-> FALSE,
               emitted |-> 0, reported |-> FALSE]
    /\ sample = NoDeck /\ dpi = NoDpi /\ api = NoApi
    /\ demit = <<>> /\ aemit = <<>> /\ dlast = "new" /\ alast = "new"
    /\ dcount = NoCount /\ acount = NoCount /\ cbuild = "release"
    /\ cnd = NoCnd /\ pmap = NoMap /\ ana = NoAna

\* the number of calls of kind op the log holds for each analysis
Tally(log, op, m) ==
    [j \in 1 .. m |->
        Cardinality({k \in 1 .. Len(log) : log[k].op = op /\ log[k].analysis = j - 1})]

\* execute up to the while loop: the composer p is built and the warning
\* test decides between returning Err and entering the loop
execute_enter(p, suppress_warnings, build) ==
    IF T_new_panics(drv.T, p)
    THEN drv' = [drv EXCEPT !.pc = "panic", !.calls = @ + 1]
    ELSE IF execute_count_panics(drv.T, drv.exe, p, suppress_warnings, build)
    THEN drv' = [drv EXCEPT !.pc = "panic", !.calls = @ + 1]
    ELSE IF execute_warns(drv.T, drv.exe, p, suppress_warnings)
    THEN drv' = [drv EXCEPT !.pc = "Err", !.exe = execute_err(drv.exe),
                            !.warning = TooManyPermutations(
                                            T_count(drv.T, drv.exe.N, p).value),
                            !.calls = @ + 1]
    ELSE drv' = [drv EXCEPT !.pc = "loop", !.perms = p, !.calls = @ + 1]

\* analysis.execute::<T>(suppress)
XExecute ==
    /\ drv.pc = "start"
    /\ \E p \in {T_new(drv.T, drv.exe.N, drv.exe.deck)} :
       \E build \in {"debug", "release"} :
           execute_enter(p, drv.suppress, build)
    /\ UNCHANGED <<pvars, cvars, kvars, mvars, ovars>>

\* main.rs: Err((analysis, warning)) => analysis.execute::<T>(SuppressWarnings::Yes)
XRetry ==
    /\ drv.pc = "Err"
    /\ drv.calls = 1
    /\ \E p \in {T_new(drv.T, drv.exe.N, drv.exe.deck)} :
       \E build \in {"debug", "release"} :
           execute_enter(p, "Yes", build)
    /\ UNCHANGED <<pvars, cvars, kvars, mvars, ovars>>

\* one turn of the while loop of execute: r is what permutations.next()
\* returned and w the analyses after the scan of the deck; on None the
\* results are collected.  A scan that panicked, at an accept the analysis
\* refuses or, in a debug build, at a u8 sum that overflows, leaves the
\* analyses, the log and the counters as they were at the panic.
execute_scan(r, w) ==
    IF ~r.some
    THEN drv' = [drv EXCEPT !.pc = "Ok", !.perms = r.p,
                            !.results = execute_results(drv.exe)]
    ELSE drv' = [drv EXCEPT
                   !.pc = IF w.panic THEN "panic" ELSE "loop",
                   !.perms = r.p,
                   !.exe.analysis = w.analysis,
                   !.decks = @ + 1,
                   !.last = r.deck,
                   !.log = w.log,
                   !.accepts = [j \in DOMAIN @ |->
                                   @[j] + Tally(w.log, "accept", Len(@))[j]],
                   !.next_decks = [j \in DOMAIN @ |->
                                      @[j] + Tally(w.log, "next_deck", Len(@))[j]]]

\* permutations.next() of one turn: a panic of the composer ends the run, and
\* so does, in a debug build, the subtraction self.len - 1 of a composer
\* without groups, which is left with next_deck taken; w.build is the build
\* of the program
execute_turn(r, w) ==
    IF T_next_in(r, w.build).panic
    THEN drv' = [drv EXCEPT !.pc = "panic", !.perms = T_next_in(r, w.build).p]
    ELSE execute_scan(r, w)

XDeck ==
    /\ drv.pc = "loop"
    /\ drv.decks < MaxRun
    /\ \E r \in {T_next(drv.T, drv.exe.N, drv.perms)} :
       \E build \in {"debug", "release"} :
           \E w \in {execute_deck(drv.exe, r.deck, build)} :
               execute_turn(r, w)
    /\ UNCHANGED <<pvars, cvars, kvars, mvars, ovars>>

XNextStep == XExecute \/ XRetry \/ XDeck

SpecDriver == XInit /\ [][XNextStep]_vars

\* ------------------------------------------- a remapper alone
\* largest N (const generic) of a stand-alone PlacementMapping
MaxMap == 4

\* the elements of a set of numbers in increasing order
RECURSIVE Ascending(_)
Ascending(S) ==
    IF S = {} THEN <<>>
    ELSE LET lo == CHOOSE x \in S : \A y \in S : x <= y
         IN  <<lo>> \o Ascending(S \ {lo})

\* the slices given as occupied positions: as Placement::positions() lists
\* them, distinct indices in increasing order; the index N is outside the
\* mapping
Slices(N) == {Ascending(S) : S \in SUBSET (0 .. N)}

\* let pmap = PlacementMapping::<N>::identity()
MInit ==
    /\ \E N \in 1 .. MaxMap :
           pmap = [N |-> N, op |-> "identity", mapping |-> PlacementMapping_identity(N),
                   placement |-> <<>>, result |-> PlacementMapping_identity(N),
                   panic |-> FALSE]
    /\ cap = 1 /\ req = [n |-> 1, k |-> 1] /\ it = NoIt
    /\ out = <<>> /\ first = <<>> /\ cycles = 0
    /\ call = [op |-> "none", ok |-> TRUE, some |-> FALSE,
               emitted |-> 0, reported |-> FALSE]
    /\ sample = NoDeck /\ dpi = NoDpi /\ api = NoApi
    /\ demit = <<>> /\ aemit = <<>> /\ dlast = "new" /\ alast = "new"
    /\ dcount = NoCount /\ acount = NoCount /\ cbuild = "release"
    /\ cnd = NoCnd /\ drv = NoDrv /\ ana = NoAna

\* pmap = PlacementMapping::from_placement_positions_and_mapping(placement, pmap)
MFrom ==
    /\ ~pmap.panic
    /\ \E placement \in Slices(pmap.N) :
           \E m \in {from_placement_positions_and_mapping(pmap.N, placement, pmap.result)} :
           \E build \in IF m.overflow THEN {"debug", "release"} ELSE {"release"} :
               pmap' = [N |-> pmap.N, op |-> "from", mapping |-> pmap.result,
                        placement |-> placement, result |-> m.map,
                        panic |-> m.panic \/ build = "debug"]
    /\ UNCHANGED <<pvars, cvars, kvars, xvars, ovars>>

MNextStep == MFrom

SpecMapping == MInit /\ [][MNextStep]_vars

\* ------------------------------------------- an analysis object alone
\* number of next_deck calls and of accept calls per deck that are followed
MaxDecks == 2
MaxAccepts == 3
\* largest energy of a turn
MaxEnergy == 5

\* the const generic M of the simulator: costs are 0 .. CostLevels - 1
CostLevels == 5

\* the analyses explored: counters over conditions without and with
\* children, and the resource-spend simulator
Analyses ==
    {ConditionCount_new("count", c) :
         c \in {CardIdCondition_new(0), ComesAtOrBeforeCondition_new(1),
                IdTurn(0, 1), AllOf_new(<<>>), AnyOf_new(<<>>)}}
        \cup {CostEfficiencyAnalysis_new(CostLevels, "cost efficiency")}

\* the arguments of accept: for a counter the cards and turns of the
\* condition spec, for the simulator every cost below M, two cards that are
\* not cost-only, and turns without and with energy, two of them with the
\* same number
CardsFor(a) ==
    IF a.kind = "ConditionCount"
    THEN {CardIdentity_None, card(0, 0).identity, card(1, 0).identity}
    ELSE {CardIdentity_Cost(e) : e \in 0 .. a.M - 1}
             \cup {CardIdentity_None, card(0, 1).identity}
AnalysisTurnsFor(a) ==
    IF a.kind = "ConditionCount" THEN {Turn(n, 0) : n \in 1 .. 2}
    ELSE {Turn(1, 0), Turn(2, MaxEnergy - 1), Turn(2, MaxEnergy)}

\* what the condition of a counter returns for the arguments of an accept
ConditionHolds(a, crd, turn) ==
    a.kind = "ConditionCount"
        /\ check(a.condition.condition, <<0>>, crd, turn).r

\* let ana = <one of Analyses>; "fresh" is a second object, built anew at
\* every next_deck, that is given the accepts of the current deck only;
\* "trues" counts the accepts of the current deck whose arguments satisfy the
\* condition, "hit" tells whether there is one, "hits" counts the decks that
\* had one, "bare" the decks closed without an accept
OInit ==
    /\ \E a \in Analyses :
           ana = [obj |-> a, op |-> "new", card |-> CardIdentity_None,
                  turn |-> Turn(0, 0), panic |-> FALSE, before |-> a,
                  init |-> a, fresh |-> a,
                  decks |-> 0, n |-> 0, hit |-> FALSE, hits |-> 0,
                  trues |-> 0, was_trues |-> 0, bare |-> 0,
                  run_number |-> u8_MAX, run_energy |-> 0, run_added |-> 0]
    /\ cap = 1 /\ req = [n |-> 1, k |-> 1] /\ it = NoIt
    /\ out = <<>> /\ first = <<>> /\ cycles = 0
    /\ call = [op |-> "none", ok |-> TRUE, some |-> FALSE,
               emitted |-> 0, reported |-> FALSE]
    /\ sample = NoDeck /\ dpi = NoDpi /\ api = NoApi
    /\ demit = <<>> /\ aemit = <<>> /\ dlast = "new" /\ alast = "new"
    /\ dcount = NoCount /\ acount = NoCount /\ cbuild = "release"
    /\ cnd = NoCnd /\ drv = NoDrv /\ pmap = NoMap

\* the state after ana.obj.accept(card, turn) returned r; "run_*" follow the
\* accepts of the current deck that share the turn number of the last one
accepted(r, f, crd, turn) ==
    LET same == ana.run_number = turn.number
        added == r.a.energy_spent - ana.obj.energy_spent
    IN  ana' = [ana EXCEPT
                   !.obj = r.a, !.op = "accept", !.card = crd, !.turn = turn,
                   !.panic = r.panic, !.before = ana.obj, !.fresh = f.a,
                   !.n = ana.n + 1,
                   !.hit = ana.hit \/ ConditionHolds(ana.obj, crd, turn),
                   !.trues = IF ConditionHolds(ana.obj, crd, turn)
                             THEN ana.trues + 1 ELSE ana.trues,
                   !.run_number = turn.number,
                   !.run_energy = IF same /\ ana.run_energy > turn.energy
                                  THEN ana.run_energy ELSE turn.energy,
                   !.run_added = IF ana.obj.kind # "CostEfficiencyAnalysis" THEN 0
                                 ELSE IF same THEN ana.run_added + added
                                 ELSE added]

\* ana.obj.accept(card, turn), through the trait Analysis
OAccept ==
    /\ ana.op # "none" /\ ~ana.panic
    /\ ana.n < MaxAccepts /\ ana.decks < MaxDecks
    /\ \E crd \in CardsFor(ana.obj), turn \in AnalysisTurnsFor(ana.obj) :
           \E build \in {"debug", "release"} :
           \E r \in {Analysis_accept_build(ana.obj, crd, turn, build)},
              f \in {Analysis_accept_build(ana.fresh, crd, turn, build)} :
               accepted(r, f, crd, turn)
    /\ UNCHANGED <<pvars, cvars, kvars, xvars, mvars>>

\* ana.obj.next_deck()
ONextDeck ==
    /\ ana.op # "none" /\ ~ana.panic
    /\ ana.decks < MaxDecks
    /\ ana' = [ana EXCEPT
                  !.obj = Analysis_next_deck(ana.obj), !.op = "next_deck",
                  !.before = ana.obj, !.fresh = ana.init,
                  !.decks = ana.decks + 1, !.n = 0,
                  !.hit = FALSE, !.trues = 0, !.was_trues = ana.trues,
                  !.bare = IF ana.n = 0 THEN ana.bare + 1 ELSE ana.bare,
                  !.hits = IF ana.hit THEN ana.hits + 1 ELSE ana.hits,
                  !.run_number = u8_MAX, !.run_energy = 0, !.run_added = 0]
    /\ UNCHANGED <<pvars, cvars, kvars, xvars, mvars>>

ONextStep == OAccept \/ ONextDeck

SpecAnalysis == OInit /\ [][ONextStep]_vars

\* ------------------------------------------- the spending strategies alone
\* largest number of cards of one cost in a profile
MaxAmount == 2

\* let mut analysis = CostEfficiencyAnalysis::<M>::new(..);
\* analysis.energy_profile = EnergyProfile(..); analysis.energy_left = ..;
\* as the tests of the strategies build the object
SInit ==
    /\ \E profile \in [0 .. CostLevels - 1 -> 0 .. MaxAmount],
          left \in 0 .. MaxEnergy :
           ana = [obj |-> [CostEfficiencyAnalysis_new(CostLevels, "cost efficiency")
                              EXCEPT !.energy_profile = profile,
                                     !.energy_left = left],
                  op |-> "new", r |-> [profile |-> profile, left |-> left,
                                       spent |-> 0]]
    /\ cap = 1 /\ req = [n |-> 1, k |-> 1] /\ it = NoIt
    /\ out = <<>> /\ first = <<>> /\ cycles = 0
    /\ call = [op |-> "none", ok |-> TRUE, some |-> FALSE,
               emitted |-> 0, reported |-> FALSE]
    /\ sample = NoDeck /\ dpi = NoDpi /\ api = NoApi
    /\ demit = <<>> /\ aemit = <<>> /\ dlast = "new" /\ alast = "new"
    /\ dcount = NoCount /\ acount = NoCount /\ cbuild = "release"
    /\ cnd = NoCnd /\ drv = NoDrv /\ pmap = NoMap

\* let (spent, profile) = analysis.spend_from_min_to_max();
SMinToMax ==
    /\ ana.op = "new"
    /\ ana' = [ana EXCEPT !.op = "spend_from_min_to_max",
                          !.r = spend_from_min_to_max(ana.obj)]
    /\ UNCHANGED <<pvars, cvars, kvars, xvars, mvars>>

\* let (spent, profile) = analysis.spend_from_max_to_min();
SMaxToMin ==
    /\ ana.op = "new"
    /\ ana' = [ana EXCEPT !.op = "spend_from_max_to_min",
                          !.r = spend_from_max_to_min(ana.obj)]
    /\ UNCHANGED <<pvars, cvars, kvars, xvars, mvars>>

SNextStep == SMinToMax \/ SMaxToMin

SpecSpend == SInit /\ [][SNextStep]_vars

\* ------------------------------------------- claims on the placement enumerator
\* new(n, k) was given admissible arguments
Constructed == req.k <= req.n /\ req.n <= cap
\* the arguments of claims C5, C7, C9: 1 <= k <= n <= N
InScope == 1 <= req.k /\ Constructed

OutSets == [i \in 1 .. Len(out) |-> SeqToSet(out[i])]

RECURSIVE Pow2(_)
Pow2(e) == IF e <= 0 THEN 1 ELSE 2 * Pow2(e - 1)

\* the bitmask of a placement: bit p is set iff position p is listed
RECURSIVE Mask(_)
Mask(pos) == IF pos = <<>> THEN 0 ELSE Pow2(Head(pos)) + Mask(Tail(pos))

Masks == [i \in 1 .. Len(out) |-> Mask(out[i])]

IsPermutationOf(a, b) ==
    /\ Len(a) = Len(b)
    /\ \A x \in SeqToSet(a) \cup SeqToSet(b) :
          Cardinality({i \in 1 .. Len(a) : a[i] = x})
              = Cardinality({i \in 1 .. Len(b) : b[i] = x})

\* C5: for 1 <= k <= n <= N, next() until None yields exactly C(n,k)
\* placements, which are exactly the k-subsets of 0..n-1, each exactly once
\* (and no next() call panics on the way).
C5_AllSubsetsOnce ==
    InScope =>
        /\ (call.op = "next" => call.ok)
        /\ \A i \in 1 .. Len(out) :
              Len(out[i]) = req.k /\ OutSets[i] \in Subsets(req.n, req.k)
        /\ \A i, i2 \in 1 .. Len(out) : i # i2 => OutSets[i] # OutSets[i2]
        /\ Reported => /\ Len(out) = Binomial(req.n, req.k)
                       /\ SeqToSet(OutSets) = Subsets(req.n, req.k)

C5_Witness ==
    /\ Reported /\ cycles = 0
    /\ req = [n |-> 5, k |-> 3] /\ cap = 6
    /\ Len(out) = 10

\* C6: for k = 0 and for k = n the enumerator returns exactly one placement
\* (the empty one for k = 0, 0..n-1 for k = n) and then None.
C6_DegenerateSingleItem ==
    (Constructed /\ (req.k = 0 \/ req.k = req.n)) =>
        /\ (call.op = "next" => call.ok)
        /\ Len(out) <= 1
        /\ Reported => out = << [i \in 1 .. req.k |-> i - 1] >>

\* the regression vectors of tests::placements_n_4_k_2 and placements_n_6_k_3
Vector_4_2 == <<3, 5, 6, 10, 12, 9>>
Vector_6_3 == <<7, 11, 13, 14, 22, 21, 19, 25, 26, 28,
                44, 41, 42, 38, 37, 35, 49, 50, 52, 56>>
\* the order in which the enumerator returns them
Order_4_2 == <<3, 6, 5, 12, 10, 9>>
Order_6_3 == <<7, 13, 14, 11, 25, 26, 28, 21, 22, 19,
               49, 50, 52, 56, 41, 42, 44, 37, 38, 35>>

\* C7 (as claimed): the sequence of returned placements equals the regression
\* vectors of the tests element by element, for (4,2) and for (6,3).
C7_OrderEqualsTestVectors ==
    /\ (Reported /\ req.n = 4 /\ req.k = 2) => Masks = Vector_4_2
    /\ (Reported /\ req.n = 6 /\ req.k = 3) => Masks = Vector_6_3

\* C7 (amended): the returned placements are the regression vectors as a
\* collection (same elements, same length), returned in the revolving-door
\* order Order_4_2 resp. Order_6_3.
C7_OrderAmended ==
    /\ (Reported /\ req.n = 4 /\ req.k = 2) =>
          Masks = Order_4_2 /\ IsPermutationOf(Masks, Vector_4_2)
    /\ (Reported /\ req.n = 6 /\ req.k = 3) =>
          Masks = Order_6_3 /\ IsPermutationOf(Masks, Vector_6_3)

C7_Witness ==
    Reported /\ req.n = 6 /\ req.k = 3 /\ cap = 6 /\ Len(out) = 20

\* C8: after a reset the enumerator returns the same placements in the same
\* order as the freshly constructed one, for every exhaust/reset cycle.
C8_Restartable ==
    cycles > 0 =>
        /\ Len(out) <= Len(first)
        /\ \A i \in 1 .. Len(out) : out[i] = first[i]
        /\ Reported => out = first

C8_Witness ==
    /\ cycles = 2 /\ Reported
    /\ req = [n |-> 4, k |-> 2] /\ Len(out) = 6

\* C9 (as claimed): reset() succeeds only after a next() call returned None;
\* before that, also right after the last subset was returned, it panics.
C9_ResetOnlyAfterNone ==
    (InScope /\ call.op = "reset") => (call.ok <=> call.reported)

\* C9 (amended): for 1 <= k <= n <= N, reset() panics iff fewer than C(n,k)
\* placements were returned since new / the last reset; it succeeds as soon as
\* the last subset was returned, whether or not None was reported since.
C9_ResetAfterLastSubset ==
    (InScope /\ call.op = "reset") =>
        /\ call.ok <=> call.emitted = Binomial(req.n, req.k)
        /\ call.reported => call.ok
        /\ ~call.ok => it.panic /\ Len(out) = call.emitted

C9_Witness ==
    /\ call.op = "reset" /\ call.ok /\ ~call.reported
    /\ req = [n |-> 4, k |-> 2] /\ call.emitted = 6

\* C10: new(n, k) panics iff k > n or n > N.
C10_NewPanics ==
    call.op = "new" =>
        /\ call.ok <=> ~(req.k > req.n \/ req.n > cap)
        /\ call.ok => it.n = req.n /\ it.k = req.k /\ ~it.finished

C10_Witness ==
    call.op = "new" /\ ~call.ok /\ req.k <= req.n /\ req.n = cap + 1

\* ------------------------------------------- claims on the returned placements
\* C24: for 1 <= k <= n <= N every returned placement lists exactly k
\* indices, all within 0..n-1 and in strictly increasing order (so pairwise
\* distinct); the sentinel n of slot k is never listed.
C24_StrictlyIncreasing ==
    InScope =>
        \A i \in 1 .. Len(out) :
            /\ Len(out[i]) = req.k
            /\ \A x \in 1 .. req.k : out[i][x] \in 0 .. req.n - 1
            /\ \A x, y \in 1 .. req.k : x < y => out[i][x] < out[i][y]

\* the enumeration of the 4-subsets of 0..5 has run to its end; its last
\* placement is {0, 1, 2, 5}
C24_Witness ==
    /\ Reported /\ req = [n |-> 6, k |-> 4] /\ cap = 6
    /\ Len(out) = 15
    /\ out[15] = <<0, 1, 2, 5>>

\* C25: the first placement a freshly constructed or freshly reset enumerator
\* returns, for any k <= n <= N, is the first k positions 0, ..., k-1 (and the
\* first next() does return one).
C25_FirstPlacement ==
    Constructed =>
        /\ (call.op = "next" /\ call.emitted = 0) =>
               call.ok /\ call.some /\ Len(out) = 1
        /\ Len(out) >= 1 => out[1] = [x \in 1 .. req.k |-> x - 1]

\* the first next() after a reset returned 0, 1, 2
C25_Witness ==
    /\ cycles >= 1 /\ call.op = "next" /\ call.emitted = 0
    /\ req = [n |-> 5, k |-> 3]
    /\ out = << <<0, 1, 2>> >>

\* C26: once next() has returned None, every further next() returns None and
\* leaves the enumerator unchanged, until reset() is called.
C26_NoneIsSticky ==
    [][(Reported /\ call'.op = "next") =>
           (~call'.some /\ call'.ok /\ it' = it /\ out' = out)]_vars

\* a second next() in a row returned None
C26_Witness ==
    /\ call.op = "next" /\ ~call.some /\ call.reported
    /\ req = [n |-> 4, k |-> 2] /\ Len(out) = 6 /\ it.finished

\* C27: for 1 <= k < n <= N two placements returned one after the other
\* differ by one exchange: the later one drops exactly one position of the
\* earlier one and takes exactly one other position.
C27_RevolvingDoor ==
    (1 <= req.k /\ req.k < req.n /\ req.n <= cap) =>
        \A i \in 1 .. Len(out) - 1 :
            /\ Cardinality(SeqToSet(out[i]) \ SeqToSet(out[i + 1])) = 1
            /\ Cardinality(SeqToSet(out[i + 1]) \ SeqToSet(out[i])) = 1

\* the whole enumeration of the 3-subsets of 0..5, from 0 1 2 to 0 1 5
C27_Witness ==
    /\ Reported /\ req = [n |-> 6, k |-> 3] /\ Len(out) = 20
    /\ out[1] = <<0, 1, 2>> /\ out[20] = <<0, 1, 5>>
    /\ cycles = 1

\* ------------------------------------------- claims on the composers
Occurrences(deck, v) == Cardinality({x \in DOMAIN deck : deck[x] = v})

Values(deck) == {deck[x] : x \in DOMAIN deck}

\* d is an ordering of the multiset of cards of deck
IsOrderingOf(d, deck) ==
    /\ DOMAIN d = DOMAIN deck
    /\ \A v \in Values(d) \cup Values(deck) : Occurrences(d, v) = Occurrences(deck, v)

\* every distinct ordering of the multiset of cards of deck
Orderings(deck) == {[x \in DOMAIN deck |-> deck[pi[x]]] : pi \in Permutations(DOMAIN deck)}

RECURSIVE FactorialProduct(_, _)
FactorialProduct(deck, vs) ==
    IF vs = {} THEN 1
    ELSE LET v == CHOOSE x \in vs : TRUE
         IN  Factorial(Occurrences(deck, v)) * FactorialProduct(deck, vs \ {v})

\* N! / (k1! * ... * km!)
Multinomial(deck) ==
    Factorial(Cardinality(DOMAIN deck)) \div FactorialProduct(deck, Values(deck))

NoDuplicates(s) == Cardinality(SeqToSet(s)) = Len(s)

\* C1: for every input deck, the decks returned by the optimized composer
\* until None are the distinct orderings of the input multiset, each exactly
\* once, none missed; no call panics.
C1_OptimizedExactlyOnce ==
    /\ dlast # "panic"
    /\ NoDuplicates(demit)
    /\ \A x \in 1 .. Len(demit) : IsOrderingOf(demit[x], sample)
    /\ dlast = "none" => SeqToSet(demit) = Orderings(sample)

\* C2: for every input deck, count() of the optimized composer returns
\* N!/(k1!*...*km!), whenever it is called, and that is the number of decks
\* next() returns before None: never more decks than count() are returned,
\* and at None exactly count() have been.
C2_OptimizedCount ==
    /\ dcount.called =>
           /\ ~dcount.panic
           /\ dcount.value = u64_from(Multinomial(sample))
           /\ u64_ge(dcount.value, u64_from(Len(demit)))
    /\ (dcount.called /\ dlast = "none") => dcount.value = u64_from(Len(demit))

\* C3: for every input deck, the fallback composer returns Some exactly N!
\* times before None, without a panic, its count() is N!, and for N distinct
\* values the orderings are pairwise distinct.
C3_FallbackFactorial ==
    /\ alast # "panic"
    /\ Len(aemit) <= Factorial(DeckLen)
    /\ alast = "none" => Len(aemit) = Factorial(DeckLen)
    /\ acount.called =>
           ~acount.panic /\ acount.value = u64_from(Factorial(DeckLen))
    /\ Cardinality(Values(sample)) = DeckLen => NoDuplicates(aemit)

\* C4: for every input deck, the set of decks returned by the fallback
\* composer equals the set of decks returned by the optimized composer: the
\* sets are equal when both have returned None, and once the fallback
\* composer has ended it has returned every deck the optimized composer has.
C4_SameSetOfDecks ==
    /\ (dlast = "none" /\ alast = "none") => SeqToSet(aemit) = SeqToSet(demit)
    /\ alast \in {"none", "panic"} => SeqToSet(demit) \subseteq SeqToSet(aemit)

\* ------------------------------------------- claims on the conditions
IsLock(c) == c.kind = "LockConditionResult"
IsGroup(c) == c.kind \in {"AllOf", "AnyOf"}
Children(c) == IF c.kind = "AllOf" THEN c.all ELSE c.any

\* what the child of the lock returned, or would have returned, for the
\* arguments of the last call
ChildReturns == check(cnd.before.condition, <<0>>, cnd.card, cnd.turn).r

\* C11: once a check() of a LockConditionResult has returned true, every later
\* check() returns true whatever the card and the turn, until next_deck() is
\* called; the check() that follows next_deck() returns what the child returns.
C11_Latching ==
    (cnd.op = "check" /\ IsLock(cnd.tree)) =>
        /\ cnd.was => cnd.r
        /\ cnd.prev = "next_deck" => cnd.r = ChildReturns

\* a latched lock answered true to arguments its child rejects
C11_Witness ==
    /\ cnd.op = "check" /\ IsLock(cnd.tree)
    /\ cnd.was /\ cnd.r /\ ~ChildReturns

\* the check calls made on the direct children, in order
DirectCalls(log) == SelectSeq(log, LAMBDA e : Len(e.path) = 1)

\* what each direct child returns for the arguments of the last call
ChildResults ==
    LET ch == Children(cnd.before)
    IN  [i \in 1 .. Len(ch) |-> check(ch[i], <<i - 1>>, cnd.card, cnd.turn).r]

\* C12: a check() of AllOf / AnyOf calls check() of every direct child exactly
\* once, in the order of the children, with the same card and turn, whatever
\* the earlier children returned; it returns the AND, resp. the OR, of the
\* children's results.
C12_NoShortCircuit ==
    (cnd.op = "check" /\ IsGroup(cnd.tree)) =>
        LET ch == Children(cnd.before)
            d == DirectCalls(cnd.log)
        IN  /\ Len(d) = Len(ch)
            /\ \A i \in 1 .. Len(ch) :
                   d[i] = [path |-> <<i - 1>>, card |-> cnd.card, turn |-> cnd.turn]
            /\ cnd.tree.kind = "AllOf" =>
                   cnd.r = (\A i \in 1 .. Len(ch) : ChildResults[i])
            /\ cnd.tree.kind = "AnyOf" =>
                   cnd.r = (\E i \in 1 .. Len(ch) : ChildResults[i])

\* the first child of an AllOf returned false and a later child still
\* latched during the same call
C12_Witness ==
    /\ cnd.op = "check" /\ cnd.tree.kind = "AllOf"
    /\ Len(cnd.tree.all) = 3
    /\ ~ChildResults[1]
    /\ IsLock(cnd.tree.all[2])
    /\ ~cnd.before.all[2].result /\ cnd.tree.all[2].result

\* ------------------------------------------- claims on the leaf conditions
\* C32: check() of a CardIdCondition returns true exactly when the card is a
\* Full card whose id is the configured id; it is false for a cost-only card
\* and for None, whatever the turn; neither check() nor next_deck() changes
\* the object.
C32_CardIdCheck ==
    (cnd.tree.kind = "CardIdCondition" /\ cnd.op # "new") =>
        /\ cnd.tree = cnd.before
        /\ cnd.op = "check" =>
               cnd.r = (cnd.card \in 1 .. 256
                            /\ (cnd.card - 1) \div 16 = cnd.tree.id)

\* a cost-only card whose cost is the configured id was rejected, on a turn
\* that carries energy
C32_Witness ==
    /\ cnd.tree.kind = "CardIdCondition" /\ cnd.op = "check"
    /\ cnd.card = CardIdentity_Cost(cnd.tree.id)
    /\ cnd.turn.energy > 0 /\ ~cnd.r

\* C33: check() of a ComesAtOrBeforeCondition returns true exactly when the
\* number of the turn is at most the threshold (the threshold included),
\* whatever the card and the energy of the turn; neither check() nor
\* next_deck() changes the object.
C33_ComesAtOrBeforeCheck ==
    (cnd.tree.kind = "ComesAtOrBeforeCondition" /\ cnd.op # "new") =>
        /\ cnd.tree = cnd.before
        /\ cnd.op = "check" => cnd.r = (cnd.turn.number <= cnd.tree.number)

\* the turn of the threshold itself was accepted, for a card without an id
\* and a turn that carries energy
C33_Witness ==
    /\ cnd.tree.kind = "ComesAtOrBeforeCondition" /\ cnd.op = "check"
    /\ cnd.turn.number = cnd.tree.number /\ cnd.turn.energy > 0
    /\ cnd.card = CardIdentity_None /\ cnd.r

\* ------------------------------------------- claims on the latches
\* the calls of check made on the object at path p, in order
CallsAt(log, p) == SelectSeq(log, LAMBDA e : e.path = p)

\* the calls a lock that was in state lock before the call makes on its child,
\* which stands at path p: none when latched, one with the arguments of the
\* call otherwise
ChildCalled(lock, p) ==
    CallsAt(cnd.log, p) =
        IF lock.result THEN <<>>
        ELSE <<[path |-> p, card |-> cnd.card, turn |-> cnd.turn]>>

\* C29: a check() or an accept() on a LockConditionResult whose child has
\* evaluated true since the last next_deck() does not call the child's check
\* and changes nothing; while the lock is not latched, each call on it calls
\* the child's check exactly once, with the same card and turn.  This holds
\* for a lock called directly and for a lock called through an AllOf / AnyOf.
C29_LatchedChildNotCalled ==
    (cnd.op \in {"check", "accept"}) =>
        /\ IsLock(cnd.before) =>
               /\ ChildCalled(cnd.before, <<0>>)
               /\ cnd.before.result =>
                      /\ cnd.tree = cnd.before
                      /\ \A x \in 1 .. Len(cnd.log) : cnd.log[x].path = <<>>
        /\ IsGroup(cnd.before) =>
               \A i \in 1 .. Len(Children(cnd.before)) :
                   IsLock(Children(cnd.before)[i]) =>
                       /\ ChildCalled(Children(cnd.before)[i], <<i - 1, 0>>)
                       /\ Children(cnd.before)[i].result =>
                              Children(cnd.tree)[i] = Children(cnd.before)[i]

\* accept() on a latched lock with arguments its child accepts: the child is
\* not called
C29_Witness ==
    /\ cnd.op = "accept" /\ IsLock(cnd.before)
    /\ cnd.before.result /\ cnd.log = <<>>
    /\ IsGroup(cnd.before.condition)
    /\ check(cnd.before.condition, <<0>>, cnd.card, cnd.turn).log # <<>>

\* a lock somewhere in the tree is latched
RECURSIVE AnyLatched(_)
AnyLatched(c) ==
    CASE IsLock(c) -> c.result \/ AnyLatched(c.condition)
      [] IsGroup(c) -> \E i \in 1 .. Len(Children(c)) : AnyLatched(Children(c)[i])
      [] OTHER -> FALSE

\* C30: after next_deck() on the root of a condition tree no lock at any depth
\* is latched: every LockConditionResult has result = false, below AllOf and
\* AnyOf nodes and below other locks too.
C30_NextDeckResetsAll ==
    cnd.op = "next_deck" => ~AnyLatched(cnd.tree)

\* next_deck() was called on an AllOf with two latched locks among its children
C30_Witness ==
    /\ cnd.op = "next_deck"
    /\ cnd.before.kind = "AllOf" /\ Len(cnd.before.all) = 3
    /\ cnd.before.all[2].result /\ cnd.before.all[3].result
    /\ ~cnd.tree.all[2].result /\ ~cnd.tree.all[3].result

\* ------------------------------------------- claims on the driver
\* execute returned Ok for the driver x run with the optimized composer
Completed(x) ==
    drv.pc = "Ok" /\ drv.init = x /\ drv.T = "DeckPermutationIterator"

\* C13: scenario A (deck [card 0, None, None], condition "card 0 and turn <= T",
\* turns 0, 1, 2, optimized composer) ends with total_amount = 3 for every T
\* and count = 1, 2, 3 for T = 0, 1, 2.
C13_ScenarioA ==
    \A t \in 0 .. 2 :
        Completed(ScenarioA(t)) =>
            /\ Len(drv.results) = 1
            /\ drv.results[1].total_amount = 3
            /\ drv.results[1].count = t + 1

\* scenario A was run to the end for T = 1 and counted 2 decks of 3
C13_Witness ==
    /\ Completed(ScenarioA(1))
    /\ drv.decks = 3
    /\ drv.results[1].count = 2

\* C14: scenario B (deck [card 0, card 1, None, None], "card 0 by turn 1" and
\* "card 1 by turn 2", each latched, under AllOf; turns 0..3) ends with
\* total_amount = 12 and count = 4.
C14_ScenarioB ==
    Completed(ScenarioB) =>
        /\ Len(drv.results) = 1
        /\ drv.results[1].total_amount = 12
        /\ drv.results[1].count = 4

\* scenario B was run to the end over 12 decks
C14_Witness ==
    /\ Completed(ScenarioB)
    /\ drv.decks = 12
    /\ drv.results[1].count = 4

\* C15: scenario C (four cards of one cost, turns (1,1), (2,2), (3,3), (4,4))
\* ends with total_spent = 4 and number_of_decks = 1, for cost 1 and for cost 4.
C15_ScenarioC ==
    \A cost \in {1, 4} :
        Completed(ScenarioC(cost)) =>
            /\ Len(drv.results) = 1
            /\ drv.results[1].total_spent = 4
            /\ drv.results[1].number_of_decks = 1

\* scenario C was run to the end for the deck of cost 4: nothing can be
\* bought before turn 4
C15_Witness ==
    /\ Completed(ScenarioC(4))
    /\ drv.decks = 1
    /\ drv.results[1].total_spent = 4

\* what count() of the composer of the driver returns
CountOf == T_count(drv.T, drv.init.N, T_new(drv.T, drv.init.N, drv.init.deck))
TooMany == u64_gt(CountOf.value, u64_from(PERMUTATION_COUNT_WARNING_THRESHOLD))

\* C16: execute(SuppressWarnings::No) returns Err with
\* TooManyPermutations(count()) exactly when count() of the composer exceeds
\* 10,000,000; when count() is at most the threshold, or the warnings are
\* suppressed, it never returns Err and returns Ok only after the composer
\* has produced all its decks.
C16_WarningGate ==
    /\ (drv.calls = 1 /\ drv.pc # "panic") =>
           ((drv.pc = "Err") <=> (drv.suppress = "No" /\ TooMany))
    /\ drv.pc = "Err" => drv.warning = TooManyPermutations(CountOf.value)
    /\ drv.calls = 2 => drv.pc # "Err"
    /\ drv.pc = "Ok" => u64_from(drv.decks) = CountOf.value

\* the optimized composer of a deck of 8 distinct cards and 4 x None counts
\* 12!/4! orderings and execute returned Err with that number
C16_Witness ==
    /\ drv.pc = "Err" /\ drv.suppress = "No"
    /\ drv.T = "DeckPermutationIterator"
    /\ drv.init = Padded(12, 8)
    /\ drv.warning = TooManyPermutations(u64_from(19958400))

\* the calls execute makes for one deck: pair after pair, every pair to all
\* the analyses in the order of the Vec, then next_deck to all the analyses
ExpectedCalls(deck, turn_profile, m, N) ==
    [k \in 1 .. N * m |->
        AcceptCall((k - 1) % m, (k - 1) \div m,
                   deck[(k - 1) \div m], turn_profile[(k - 1) \div m])]
    \o [j \in 1 .. m |-> NextDeckCall(j - 1)]

\* C18: in an execute that completes, every analysis receives for every deck
\* the N calls accept(deck[i], profile[i]) in increasing i, the pair i going
\* to all the analyses before the pair i + 1 goes to any, then one next_deck
\* before any accept of the next deck; the number of next_deck calls is the
\* number of decks; result() is taken only after the composer is exhausted,
\* once per analysis in the order of registration.
C18_CallOrder ==
    LET x == drv.init
        m == Len(x.analysis)
    IN  /\ (drv.pc \in {"loop", "Ok"} /\ drv.decks > 0) =>
               drv.log = ExpectedCalls(drv.last, x.turn_profile, m, x.N)
        /\ drv.pc \in {"loop", "Ok"} =>
               \A j \in 1 .. m :
                   /\ drv.next_decks[j] = drv.decks
                   /\ drv.accepts[j] = x.N * drv.decks
        /\ drv.pc # "Ok" => drv.results = <<>>
        /\ drv.pc = "Ok" =>
               /\ ~T_next(drv.T, x.N, drv.perms).some
               /\ Len(drv.results) = m
               /\ \A j \in 1 .. m :
                      /\ drv.results[j] = Analysis_result(drv.exe.analysis[j])
                      /\ drv.results[j].name = x.analysis[j].name

\* a driver with three analyses has scanned its second deck
C18_Witness ==
    /\ drv.init = TwoCounts /\ drv.pc = "loop"
    /\ drv.decks = 2
    /\ Len(drv.log) = 12
    /\ drv.log[4].i = 1 /\ drv.log[4].analysis = 0

\* ------------------------------------------- claims on the remapper
\* the entries of mapping at the indices the slice does not list, in order
KeptEntries(N, mapping, placement) ==
    LET free == SelectSeq([x \in 1 .. N |-> x - 1],
                          LAMBDA j : j \notin SeqToSet(placement))
    IN  [x \in 1 .. Len(free) |-> mapping[free[x]]]

\* C21: from_placement_positions_and_mapping(P, M) is the mapping whose
\* entries are the entries of M at the indices P does not list, in their
\* order, followed by entries N - 1 up to the length N; P = [0, 2] and
\* M = [0, 1, 2, 3] give [1, 3, 3, 3].
C21_Compaction ==
    (pmap.op = "from" /\ ~pmap.panic) =>
        LET kept == KeptEntries(pmap.N, pmap.mapping, pmap.placement)
        IN  /\ DOMAIN pmap.result = 0 .. pmap.N - 1
            /\ \A i \in 0 .. pmap.N - 1 :
                   pmap.result[i] = IF i < Len(kept) THEN kept[i + 1] ELSE pmap.N - 1
            /\ (pmap.placement = <<0, 2>> /\ pmap.mapping = PlacementMapping_identity(4))
                   => pmap.result = Deck_from(<<1, 3, 3, 3>>)

\* test_placement_mapping_from_placement_2
C21_Witness ==
    /\ pmap.op = "from" /\ ~pmap.panic /\ pmap.N = 4
    /\ pmap.placement = <<0, 2>> /\ pmap.mapping = PlacementMapping_identity(4)
    /\ pmap.result = Deck_from(<<1, 3, 3, 3>>)

\* ------------------------------------------- claims on the groups of the composer
\* C22: the deck parts of the optimized composer list the (value,
\* multiplicity) pairs of the input deck by descending multiplicity: of two
\* adjacent non-empty groups the first has at least the multiplicity of the
\* second, and the multiplicities are the occurrence counts of the distinct
\* values.
C22_DescendingMultiplicity ==
    /\ dpi.len = Cardinality(Values(sample))
    /\ \A g \in 0 .. dpi.len - 1 :
           /\ dpi.deck_parts[g].card \in Values(sample)
           /\ dpi.deck_parts[g].count = Occurrences(sample, dpi.deck_parts[g].card)
    /\ \A g, h \in 0 .. dpi.len - 1 :
           g # h => dpi.deck_parts[g].card # dpi.deck_parts[h].card
    /\ \A g \in 0 .. dpi.len - 2 :
           dpi.deck_parts[g].count >= dpi.deck_parts[g + 1].count

\* the absolute positions of group g: its placement mapped through its remapper
AbsolutePositions(d, g) ==
    {PlacementMapping_map(d.placement_mappings[g], p) :
         p \in SeqToSet(positions(d.placements[g]))}

\* C23: in every state of the optimized composer the absolute position sets
\* of the groups are pairwise disjoint and together cover 0..N-1, each group
\* holding as many positions as its multiplicity; so every deck built or
\* returned has length N and holds each value of the input deck with its
\* input multiplicity.
C23_PositionsPartition ==
    ~dpi.panic =>
        /\ \A g \in 0 .. dpi.len - 1 :
               Cardinality(AbsolutePositions(dpi, g)) = dpi.deck_parts[g].count
        /\ \A g, h \in 0 .. dpi.len - 1 :
               g # h => AbsolutePositions(dpi, g) \cap AbsolutePositions(dpi, h) = {}
        /\ UNION {AbsolutePositions(dpi, g) : g \in 0 .. dpi.len - 1} = 0 .. DeckLen - 1
        /\ dpi.next_deck.some => IsOrderingOf(dpi.next_deck.deck, sample)
        /\ \A x \in 1 .. Len(demit) : IsOrderingOf(demit[x], sample)

\* three groups, the composer has advanced, and the last group stands on
\* absolute positions its remapper moved away from its placement
C23_Witness ==
    /\ dlast = "some" /\ dpi.next_deck.some /\ Len(demit) >= 3
    /\ dpi.len >= 3
    /\ AbsolutePositions(dpi, 2) # SeqToSet(positions(dpi.placements[2]))
    /\ dpi.next_deck.deck # sample

\* C28: once next() of the optimized composer has returned None, a further
\* next() returns None and leaves the composer as it is, so that every later
\* call returns None; the same holds for the fallback composer.
C28_ExhaustedForever ==
    /\ dlast = "none" =>
           /\ ~DeckPermutationIterator_next(DeckLen, dpi).ret.some
           /\ DeckPermutationIterator_next(DeckLen, dpi).d = dpi
    /\ alast = "none" =>
           /\ ~AllPermutationsIterator_trait_next(DeckLen, api).some
           /\ ~AllPermutationsIterator_trait_next(DeckLen, api).panic
           /\ AllPermutationsIterator_trait_next(DeckLen, api).a = api

\* both composers have returned None on a deck of four cards with three
\* distinct values
C28_Witness ==
    /\ dlast = "none" /\ alast = "none"
    /\ DeckLen = 4 /\ Cardinality(Values(sample)) = 3
    /\ ~dpi.next_deck.some /\ api.i = 4
    /\ Len(demit) = 12 /\ Len(aemit) = 24

\* ------------------------------------------- claims on the odometer of the composer
\* the placements a fresh PlacementIterator::<N>::new(n, k) returns before
\* None (seq), and whether new or a call of next panicked instead (panic); a
\* call that panics returns no placement
RECURSIVE PlacementSequence_from(_, _)
PlacementSequence_from(s, acc) ==
    IF s.panic THEN [seq |-> acc, panic |-> TRUE]
    ELSE IF s.finished THEN [seq |-> acc, panic |-> FALSE]
    ELSE IF PlacementIterator_next(s).it.panic THEN [seq |-> acc, panic |-> TRUE]
    ELSE PlacementSequence_from(PlacementIterator_next(s).it,
                                Append(acc, positions(PlacementIterator_next(s).item)))

PlacementSequence(N, n, k) == PlacementSequence_from(PlacementIterator_new(N, n, k), <<>>)

\* the multiplicity of group g and the number of positions left to it
GroupCount(d, g) == d.deck_parts[g].count
RECURSIVE GroupPlaces(_, _, _)
GroupPlaces(N, d, g) ==
    IF g = 0 THEN N ELSE GroupPlaces(N, d, g - 1) - GroupCount(d, g - 1)

\* the subsets group g runs through, and the index of its current placement
GroupSequence(N, d, g) == PlacementSequence(N, GroupPlaces(N, d, g), GroupCount(d, g))
Digit(N, d, g) ==
    LET seq == GroupSequence(N, d, g).seq
    IN  IF \E i \in 1 .. Len(seq) : seq[i] = positions(d.placements[g])
        THEN CHOOSE i \in 1 .. Len(seq) : seq[i] = positions(d.placements[g])
        ELSE 0

\* the enumerator of group g still has a subset after the current one
CanAdvance(N, d, g) == Digit(N, d, g) < Len(GroupSequence(N, d, g).seq)

\* d is the composer before a next() that returns a deck, e the composer after
Odometer(N, d, e) ==
    LET movers == {g \in 0 .. d.len - 1 : CanAdvance(N, d, g)}
    IN  IF \E g \in 0 .. d.len - 1 : GroupSequence(N, d, g).panic THEN FALSE
        ELSE IF movers = {} THEN ~e.next_deck.some
        ELSE LET a == CHOOSE g \in movers : \A h \in movers : h <= g
             IN  /\ e.next_deck.some
                 /\ Digit(N, e, a) = Digit(N, d, a) + 1
                 /\ \A g \in a + 1 .. d.len - 1 : Digit(N, e, g) = 1
                 /\ \A g \in 0 .. a - 1 : e.placements[g] = d.placements[g]

\* C19: for every input deck, on each next() that returns a deck, scanning
\* the groups from the last to the first, the last group whose enumerator
\* still has a next subset moves to that subset, every group after it is
\* reset to its first subset and every group before it keeps its placement;
\* the composer becomes exhausted exactly when no group, down to group 0, can
\* advance.
C19_Odometer ==
    [][(demit' # demit /\ ~dpi'.panic) => Odometer(DeckLen, dpi, dpi')]_vars

\* the absolute positions taken by the groups 0 .. i - 1
Occupied(d, i) ==
    UNION {{d.placement_mappings[h][p] : p \in SeqToSet(positions(d.placements[h]))} :
               h \in 0 .. i - 1}

\* C20: whenever the composer has built a deck (in new and after every next()
\* that advances), the remapper of every group i >= 1 is the remapper rebuilt
\* from the current placements of the groups 0 .. i - 1: on the indices
\* 0 .. n_i - 1 it is strictly increasing and its image is the set of the
\* absolute positions the groups 0 .. i - 1 do not occupy.
C20_NoStaleRemapper ==
    (dpi.next_deck.some /\ ~dpi.panic) =>
        \A i \in 1 .. dpi.len - 1 :
            LET m == dpi.placement_mappings[i]
                n == GroupPlaces(DeckLen, dpi, i)
            IN  /\ \A x \in 0 .. n - 1 : \A y \in 0 .. n - 1 : x < y => m[x] < m[y]
                /\ {m[x] : x \in 0 .. n - 1} = (0 .. DeckLen - 1) \ Occupied(dpi, i)
                /\ m = from_placement_positions_and_mapping(
                           DeckLen, positions(dpi.placements[i - 1]),
                           dpi.placement_mappings[i - 1]).map

\* after a next(), the groups 0 and 1 have both left their first subsets, so
\* the remapper of group 2 differs from the one built by new
C20_Witness ==
    /\ dlast = "some" /\ dpi.next_deck.some
    /\ dpi.len >= 3
    /\ Digit(DeckLen, dpi, 0) > 1
    /\ Digit(DeckLen, dpi, 1) > 1
    /\ dpi.placement_mappings[2] # DeckPermutationIterator_new(DeckLen, sample).placement_mappings[2]

\* ------------------------------------------- claims on count()
\* the products count() computes for the groups g .. len-1: the falling
\* factorial, k! and the running count after the group
RECURSIVE CountSteps(_, _, _, _)
CountSteps(d, g, n, count) ==
    IF g >= d.len THEN <<>>
    ELSE LET k == d.deck_parts[g].count
             falling == range_product(n - k + 1, n)
             fact == range_product(1, k)
             next == count_step(count, falling, fact)
         IN  <<[falling |-> falling, fact |-> fact, count |-> next]>>
                 \o CountSteps(d, g + 1, n - k, next)

\* the count before the first group: let mut count: u64 = 1
CountStart == [value |-> u64_from(1), overflow |-> FALSE, panic |-> FALSE]

\* the u64 product p has not left the range of u64 and is at most m
Fits(p, m) == ~p.overflow /\ u64_ge(u64_from(m), p.value)

\* C39: at N = MAX_ID = 12, for every multiset of 12 cards, every product
\* count() computes (falling factorial, k!, running count) is at most 12!
\* = 479001600, far below 2^64 - 1, and so is the count returned, which is
\* the multinomial coefficient.
C39_CountFits ==
    (DeckLen = MAX_ID /\ dcount.called) =>
        LET steps == CountSteps(dpi, 1, MAX_ID, CountStart)
        IN  /\ \A i \in 1 .. Len(steps) :
                   /\ Fits(steps[i].falling, 479001600)
                   /\ Fits(steps[i].fact, 479001600)
                   /\ Fits(steps[i].count, 479001600)
                   /\ ~steps[i].count.panic
            /\ ~dcount.panic
            /\ u64_ge(u64_from(479001600), dcount.value)
            /\ dcount.value = u64_from(Multinomial(sample))
            /\ Factorial(MAX_ID) = 479001600

\* twelve different cards: the count is 12!
C39_Witness ==
    /\ DeckLen = MAX_ID /\ dcount.called /\ dcount.value = u64_from(479001600)
    /\ Cardinality(Values(sample)) = 12

\* one card and eleven equal cards: the falling factorial is 12!, the
\* count is 12
C39_LargestProduct ==
    /\ DeckLen = MAX_ID /\ dcount.called /\ dcount.value = u64_from(12)
    /\ CountSteps(dpi, 1, MAX_ID, CountStart) =
           <<[falling |-> [value |-> u64_from(479001600), overflow |-> FALSE],
              fact |-> [value |-> u64_from(39916800), overflow |-> FALSE],
              count |-> [value |-> u64_from(12), overflow |-> FALSE,
                         panic |-> FALSE]]>>

\* ------------------------------------------- claims on the counter
\* C31: after any sequence of accept and next_deck calls on a ConditionCount,
\* total_amount is the number of next_deck calls and count is the number of
\* next_deck calls before which, since the previous next_deck, the condition
\* was true for the arguments of at least one accept; count <= total_amount;
\* a deck is counted once however many of its accepts satisfy the condition.
C31_Counters ==
    ana.obj.kind = "ConditionCount" =>
        /\ ana.obj.total_amount = ana.decks
        /\ ana.obj.count = ana.hits
        /\ ana.obj.count <= ana.obj.total_amount

\* the second deck was closed; one of the two decks satisfied the condition
\* on two of its accepts and was counted once
C31_Witness ==
    /\ ana.obj.kind = "ConditionCount" /\ ana.op = "next_deck"
    /\ ana.decks = 2 /\ ana.was_trues >= 2
    /\ ana.obj.count = 1 /\ ana.obj.total_amount = 2

\* the condition the counter was built on
CountedCondition == ana.init.condition.condition

\* C40: check() of an AllOf without children returns true and check() of an
\* AnyOf without children returns false, whatever the arguments; so a
\* counter over an empty AllOf counts every deck that had an accept (count
\* is total_amount when every deck had one) and a counter over an empty
\* AnyOf counts none.
C40_EmptyGroups ==
    /\ (ana.op # "none" /\ ana.obj.kind = "ConditionCount"
            /\ CountedCondition = AllOf_new(<<>>)) =>
           /\ ana.op = "accept" =>
                  /\ check(ana.before.condition.condition, <<0>>,
                            ana.card, ana.turn).r
                  /\ LockConditionResult_result(ana.obj.condition)
           /\ ana.obj.count = ana.obj.total_amount - ana.bare
    /\ (ana.op # "none" /\ ana.obj.kind = "ConditionCount"
            /\ CountedCondition = AnyOf_new(<<>>)) =>
           /\ ana.op = "accept" =>
                  /\ ~check(ana.before.condition.condition, <<0>>,
                             ana.card, ana.turn).r
                  /\ ~LockConditionResult_result(ana.obj.condition)
           /\ ana.obj.count = 0

\* two decks with accepts were closed on a counter over an empty AllOf
C40_Witness ==
    /\ ana.obj.kind = "ConditionCount" /\ CountedCondition = AllOf_new(<<>>)
    /\ ana.op = "next_deck" /\ ana.bare = 0
    /\ ana.obj.count = 2 /\ ana.obj.total_amount = 2

\* two decks with accepts were closed on a counter over an empty AnyOf
C40_AnyOfWitness ==
    /\ ana.obj.kind = "ConditionCount" /\ CountedCondition = AnyOf_new(<<>>)
    /\ ana.op = "next_deck" /\ ana.bare = 0
    /\ ana.obj.count = 0 /\ ana.obj.total_amount = 2

\* ------------------------------------------- claims on the simulator
IsSimulator(a) == a.kind = "CostEfficiencyAnalysis"

\* the last call was an accept of a cost-only card by the simulator
CostAccepted == ana.op = "accept" /\ IsSimulator(ana.obj) /\ ~ana.panic

\* the object the strategies of the last accept were called on
Refilled ==
    [ana.before EXCEPT
        !.energy_profile[ana.card - 257] = @ + 1,
        !.energy_left = IF ana.before.last_turn # ana.turn.number
                        THEN ana.turn.energy ELSE ana.before.energy_left]

\* C34: accept(cost, turn) of the simulator adds the card to the profile
\* and, when the number of the turn is not the last one seen, sets
\* energy_left to the energy of the turn; it then adds to energy_spent the
\* larger of what the two strategies spend and keeps the profile of the
\* strategy that spent strictly more, the descending one on a tie.
C34_Accept ==
    CostAccepted =>
        LET up == spend_from_min_to_max(Refilled)
            down == spend_from_max_to_min(Refilled)
        IN  /\ ana.obj.last_turn = ana.turn.number
            /\ ana.obj.energy_left = Refilled.energy_left
            /\ ana.obj.energy_spent = ana.before.energy_spent
                   + (IF up.spent >= down.spent THEN up.spent ELSE down.spent)
            /\ up.spent > down.spent => ana.obj.energy_profile = up.profile
            /\ up.spent <= down.spent => ana.obj.energy_profile = down.profile
            /\ ana.obj.total_spent = ana.before.total_spent
            /\ ana.obj.number_of_decks = ana.before.number_of_decks

\* the two strategies spent the same and left different profiles, on a turn
\* whose number was new
C34_Witness ==
    /\ CostAccepted
    /\ ana.before.last_turn # ana.turn.number
    /\ spend_from_min_to_max(Refilled).spent = spend_from_max_to_min(Refilled).spent
    /\ spend_from_min_to_max(Refilled).profile # spend_from_max_to_min(Refilled).profile

\* the ascending strategy spent strictly more
C34_AscendingWins ==
    /\ CostAccepted
    /\ spend_from_min_to_max(Refilled).spent > spend_from_max_to_min(Refilled).spent

\* an accept on the turn number of the accept before it, with another energy
C34_SameTurn ==
    /\ CostAccepted
    /\ ana.before.last_turn = ana.turn.number
    /\ ana.before.energy_left # ana.turn.energy

\* C35: within one deck, the accepts that share a turn number add to
\* energy_spent no more than the energy of that turn (the largest energy
\* given with that number, if they differ).
C35_TurnBound ==
    (IsSimulator(ana.obj) /\ ~ana.panic) => ana.run_added <= ana.run_energy

\* the state of the simulator that belongs to the current deck
DeckState(a) ==
    [energy_spent |-> a.energy_spent, energy_left |-> a.energy_left,
     last_turn |-> a.last_turn, energy_profile |-> a.energy_profile]

\* C37: next_deck of the simulator adds energy_spent to total_spent, adds
\* one to number_of_decks and resets the state of the deck (empty profile,
\* energy_spent and energy_left zero, no last turn); so during every deck
\* the state of the deck is the one of a new simulator given the accepts of
\* this deck only, and what the deck adds to total_spent depends on nothing
\* else.
C37_NextDeck ==
    (IsSimulator(ana.obj) /\ ~ana.panic) =>
        /\ ana.op = "next_deck" =>
               /\ ana.obj.total_spent
                      = ana.before.total_spent + ana.before.energy_spent
               /\ ana.obj.number_of_decks = ana.before.number_of_decks + 1
               /\ DeckState(ana.obj)
                      = [energy_spent |-> 0, energy_left |-> 0,
                         last_turn |-> u8_MAX,
                         energy_profile |-> [e \in 0 .. ana.obj.M - 1 |-> 0]]
        /\ DeckState(ana.obj) = DeckState(ana.fresh)
        /\ ana.obj.number_of_decks = ana.decks

\* the second deck was closed and added to a total an earlier deck had
\* made positive
C37_Witness ==
    /\ IsSimulator(ana.obj) /\ ana.op = "next_deck"
    /\ ana.decks = 2
    /\ ana.before.total_spent > 0 /\ ana.before.energy_spent > 0
    /\ ana.obj.total_spent = ana.before.total_spent + ana.before.energy_spent

\* the simulator a after the accepts that log[i .. n] holds for the
\* analysis of index j
RECURSIVE Replay(_, _, _, _, _)
Replay(a, log, j, i, n) ==
    IF i > n THEN a
    ELSE IF log[i].op = "accept" /\ log[i].analysis = j
    THEN Replay(CostEfficiencyAnalysis_accept(a, log[i].card - 257, log[i].turn).a,
                log, j, i + 1, n)
    ELSE Replay(a, log, j, i + 1, n)

\* C38: Analysis::accept of the simulator panics for a Full card and for
\* None and leaves the simulator as it was before the call; a driver whose
\* deck holds such a card panics in its first deck and never returns a
\* result.
C38_NonCostPanics ==
    (drv.pc # "none" /\ drv.init \in {CostOnFull, CostOnNone}) =>
        /\ drv.pc # "Ok" /\ drv.results = <<>>
        /\ drv.decks >= 1 =>
               LET k == Len(drv.log)
               IN  /\ drv.pc = "panic" /\ drv.decks = 1
                   /\ drv.log[k].op = "accept" /\ drv.log[k].analysis = 1
                   /\ ~IsCost(drv.log[k].card)
                   /\ drv.exe.analysis[2]
                          = Replay(drv.init.analysis[2], drv.log, 1, 1, k - 1)

\* the simulator had spent on a cost-only card when the Full card arrived;
\* what it had spent is still there after the panic
C38_Witness ==
    /\ drv.pc = "panic" /\ drv.init = CostOnFull
    /\ Len(drv.log) = 4 /\ IsFull(drv.log[4].card)
    /\ drv.exe.analysis[2].energy_spent = 1
    /\ drv.exe.analysis[2].total_spent = 0

\* the driver panicked on None
C38_NoneWitness ==
    /\ drv.pc = "panic" /\ drv.init = CostOnNone
    /\ drv.log[Len(drv.log)].card = CardIdentity_None

\* ------------------------------------------- claims on the strategies
RECURSIVE SumOf(_)
SumOf(S) == IF S = {} THEN 0 ELSE LET x == CHOOSE x \in S : TRUE
                                  IN  x + SumOf(S \ {x})

\* the cost levels a strategy played a card of
Played == {e \in DOMAIN ana.r.profile :
               ana.r.profile[e] # ana.obj.energy_profile[e]}

\* the energy left when a strategy comes to level e going up, resp. down
LeftBelow(e) == ana.obj.energy_left - SumOf({x \in Played : x < e})
LeftAbove(e) == ana.obj.energy_left - SumOf({x \in Played : x > e})

\* the profile {1: 1, 3: 1} of the tests
ProfileOneThree == [e \in 0 .. CostLevels - 1 |-> IF e \in {1, 3} THEN 1 ELSE 0]

\* C36: a strategy plays at most one card of each cost level, only cards the
\* profile holds, and spends at most energy_left; the ascending strategy
\* plays every level that holds a card up to the first level that costs more
\* than the energy that remains and nothing from there on; the descending
\* strategy plays exactly the levels that hold a card and cost no more than
\* what remains when it comes to them; on {1: 1, 3: 1} with energy 3 the
\* ascending strategy spends 1 and the descending strategy 3.
C36_Strategies ==
    ana.op \in {"spend_from_min_to_max", "spend_from_max_to_min"} =>
        LET p == ana.obj.energy_profile
            q == ana.r.profile
            L == DOMAIN p
        IN  /\ \A e \in L : q[e] = p[e] \/ (p[e] > 0 /\ q[e] = p[e] - 1)
            /\ ana.r.spent = SumOf(Played)
            /\ ana.r.spent <= ana.obj.energy_left
            /\ ana.r.left = ana.obj.energy_left - ana.r.spent
            /\ ana.op = "spend_from_min_to_max" =>
                   \E stop \in 0 .. CostLevels :
                       /\ Played = {e \in L : e < stop /\ p[e] > 0}
                       /\ \A e \in L : e < stop => e <= LeftBelow(e)
                       /\ stop < CostLevels => stop > LeftBelow(stop)
            /\ ana.op = "spend_from_max_to_min" =>
                   \A e \in L : e \in Played <=> (p[e] > 0 /\ e <= LeftAbove(e))
            /\ (p = ProfileOneThree /\ ana.obj.energy_left = 3) =>
                   ana.r.spent = IF ana.op = "spend_from_min_to_max" THEN 1 ELSE 3

\* the descending strategy passed a level it could not afford and played a
\* cheaper one
C36_Witness ==
    /\ ana.op = "spend_from_max_to_min"
    /\ \E e \in Played, x \in DOMAIN ana.r.profile :
           /\ x > e /\ ana.obj.energy_profile[x] > 0
           /\ x > ana.obj.energy_left

\* the ascending strategy stopped below a level it could have afforded
C36_AscendingStops ==
    /\ ana.op = "spend_from_min_to_max"
    /\ ana.obj.energy_profile = ProfileOneThree /\ ana.obj.energy_left = 3
    /\ ana.r.spent = 1 /\ ana.r.profile[3] = 1

====
